---- MODULE Spec2Model ----
(***************************************************************************)
(* A model of toydb's three storage engines:                               *)
(*   - sstable: memtable + stack of sorted tables (LSM engine),            *)
(*   - log:     append-only JSON-line log with a lock file,                *)
(*   - hashkv:  append-only length-prefixed file with an offset index.     *)
(* Each engine has its own specification (SpecLSM, SpecLock, SpecLog,      *)
(* SpecHash) over the shared variable list; an engine's actions leave the  *)
(* other engines' variables unchanged.                                     *)
(***************************************************************************)
EXTENDS Integers, Sequences, FiniteSets, TLC

\* ------------------------------------------------------------------------
\* Strings.  Keys are TLA+ strings.  Values are strings.Repeat(ch, len)
\* kept as a record so that a value of a mebibyte is one small state.
\* ------------------------------------------------------------------------

Repeat(ch, n) == [ch |-> IF n = 0 THEN "" ELSE ch, len |-> n]

EmptyString == Repeat("", 0)

StrLen(s) == s.len

\* Lexicographic order of the keys the model uses (Go's < on strings).
KeyOrder ==
    <<"", "a", "b", "deleted",
      "k01", "k02", "k03", "k04", "k05", "k06", "k07", "k08", "k09",
      "k10", "k11", "k12", "k13", "k14", "k15", "k16", "k17", "k18",
      "k19", "k20", "k21", "k22", "k23", "k24", "k25", "k26", "k27",
      "k28", "k29", "k30", "k31", "k32", "k33", "k34", "k35", "k36",
      "k37", "k38", "k39", "k40",
      "key", "value">>

KeyRank(k) == CHOOSE i \in 1..Len(KeyOrder) : KeyOrder[i] = k

KeyLess(x, y) == KeyRank(x) < KeyRank(y)

\* ------------------------------------------------------------------------
\* Bounds of the model
\* ------------------------------------------------------------------------

\* length of the one long value the inputs offer (strings.Repeat("x", BigLen))
BigLen == 1048576

\* the model stops flushing when the next table id reaches this
MaxTableId == 6

\* Write and Delete calls in one behaviour of an engine
MaxWrites == 3

\* lock files created in one behaviour of the lock protocol
MaxInodes == 3

\* lines of a log file that exists before the instance is opened
MaxLines == 3

\* keys a sorted table is written with when it is used on its own
MaxTableKeys == 40

\* ------------------------------------------------------------------------
\* Program constants
\* ------------------------------------------------------------------------

MemtableFlushThreshold == 1048576

CompactionThreshold == 4

IndexInterval == 16

SSTableVersion == 1

\* binary.Write of an int64: the length prefix of every framed record
LengthPrefixBytes == 8

\* the width of the table id in the file name sstable_%06d.sst
TableIdWidth == 6

\* CompactionThreshold of the log engine: the file size in bytes from which
\* NewLog compacts the file
LogCompactionThreshold == 1048576

\* bufio.MaxScanTokenSize: bufio.NewScanner gives up on a line that does not
\* fit a buffer of this many bytes
MaxScanTokenSize == 65536

\* ------------------------------------------------------------------------
\* Inputs
\* ------------------------------------------------------------------------

LsmKeys == {"", "a", "b"}

Values == {EmptyString, Repeat("v", 1), Repeat("x", BigLen)}

LogKeys == {"", "a", "b"}

HashKeys == {"", "a", "key"}

\* the (key, value) pairs offered to the LSM engine's Write
LsmWrites ==
    {<<"a", v>> : v \in Values} \cup {<<"b", Repeat("v", 1)>>, <<"", Repeat("v", 1)>>}

\* ------------------------------------------------------------------------
\* State
\* ------------------------------------------------------------------------

VARIABLES
    \* LSM engine (SSTableDB)
    memtable,        \* [entries: key -> Entry, size: Int]
    sstables,        \* sequence of open tables, newest first
    nextSSTableID,
    dataDir,         \* the data directory: table id -> table file
    phase,           \* "open"; "closed" after Close; after NewSSTableDB on the same
                     \* directory "reopened" (after Close) or "recovered" (without)
    crashed,         \* TRUE once an instance was abandoned without Close
    dbMu,            \* the instance's sync.RWMutex: its writer and its readers
    dbThreads,       \* thread -> its call on the instance and where it is in it
    \* log engine: the lock file of one database path, seen by several processes
    lockPath,        \* the inode <path>.lock names, 0 when the name does not exist
    flockOwner,      \* inode -> the process whose descriptor holds its flock, or "none"
    lockFile,        \* process -> the inode its lock descriptor refers to, 0 for nil
    pc,              \* process -> where it is in NewLog or Close
    inodes,          \* number of lock inodes created so far
    \* log engine: the log file of one instance
    logFile,         \* the lines of the file, in file order
    logExists,       \* whether the log file exists on disk
    logTail,         \* the bytes after the last newline of the log file: <<>> or
                     \* <<line>>, a line that has no newline yet
    logTemps,        \* the compact-*.log files of the directory, newest last
    mu,              \* the instance's sync.RWMutex: its writer and its readers
    logThreads,      \* thread -> its call on the instance and where it is in it
    \* hash engine
    hashFile,        \* the framed records of the file, in file order
    hashTail,        \* the bytes after the last whole record of the file: 0, or
                     \* the size of a frame that a failed write left unfinished
    byteOffsetIndex, \* key -> offset of the length prefix of its latest live record
    hashThreads,     \* thread -> its call on the instance and where it is in it
    \* one sorted table used on its own
    tableFile,       \* the file WriteSSTable left: [data, index, footer]
    table,           \* the SSTable that OpenSSTable returned for it
    tmpFiles,        \* table id -> the file under that table's name with .tmp added
    tableWrite,      \* the WriteSSTable call of a flush or compaction in progress
    lastGet,         \* the last Get on it: key, value, exists, records decoded
    \* reference state the properties are stated against
    lastRead,        \* the last Read an instance answered: engine, key, answer;
                     \* for a memtable used on its own, its last snapshot
    effective,       \* key -> latest accepted record, by the latest-writer-wins rule
    writes           \* number of Write and Delete calls so far

lsmVars == <<memtable, sstables, nextSSTableID, dataDir, phase, crashed, dbMu, dbThreads>>

lockVars == <<lockPath, flockOwner, lockFile, pc, inodes>>

logVars == <<logFile, logExists, logTail, logTemps, mu, logThreads>>

hashVars == <<hashFile, hashTail, byteOffsetIndex, hashThreads>>

tableVars == <<tableFile, table, lastGet, tmpFiles, tableWrite>>

vars == <<lsmVars, lockVars, logVars, hashVars, tableVars, lastRead, effective, writes>>

\* ------------------------------------------------------------------------
\* Memtable (src/sstable/memtable.go)
\* ------------------------------------------------------------------------

Entry(key, value, deleted) == [Key |-> key, Value |-> value, Deleted |-> deleted]

NewMemtable == [entries |-> <<>>, size |-> 0]

\* len(old.Key) + len(old.Value) of the entry a MemtablePut or MemtableDelete replaces
OldEntrySize(m, key) ==
    IF key \in DOMAIN m.entries
    THEN Len(m.entries[key].Key) + StrLen(m.entries[key].Value)
    ELSE 0

MemtablePut(m, key, value) ==
    [entries |-> (key :> Entry(key, value, FALSE)) @@ m.entries,
     size    |-> m.size - OldEntrySize(m, key) + Len(key) + StrLen(value)]

MemtableDelete(m, key) ==
    [entries |-> (key :> Entry(key, EmptyString, TRUE)) @@ m.entries,
     size    |-> m.size - OldEntrySize(m, key) + Len(key)]

\* (value, found): found is false for a missing key and for a tombstone
MemtableGet(m, key) ==
    IF key \notin DOMAIN m.entries \/ m.entries[key].Deleted
    THEN [value |-> EmptyString, found |-> FALSE]
    ELSE [value |-> m.entries[key].Value, found |-> TRUE]

Size(m) == m.size

IsEmpty(m) == DOMAIN m.entries = {}

\* sort.Strings on a set of keys
RECURSIVE SortKeys(_)
SortKeys(ks) ==
    IF ks = {} THEN <<>>
    ELSE LET least == CHOOSE k \in ks : \A o \in ks : o = k \/ KeyLess(k, o)
         IN  <<least>> \o SortKeys(ks \ {least})

\* a snapshot that leaves the tombstones out
GetLiveEntries(m) ==
    LET keys == SortKeys({k \in DOMAIN m.entries : ~m.entries[k].Deleted})
    IN  [i \in 1..Len(keys) |-> m.entries[keys[i]]]

GetSortedEntries(m) ==
    LET keys == SortKeys(DOMAIN m.entries)
    IN  [i \in 1..Len(keys) |-> m.entries[keys[i]]]

Clear(m) == [entries |-> <<>>, size |-> 0]

\* ------------------------------------------------------------------------
\* Sorted table codec (src/unnamed/part_009)
\* ------------------------------------------------------------------------

\* len(json.Marshal(Entry)): {"Key":"..","Value":"..","Deleted":false}
EntryJSONLen(e) ==
    36 + Len(e.Key) + StrLen(e.Value) + (IF e.Deleted THEN 0 ELSE 1)

\* sort.Slice(entries, less by Key): insertion of each entry into a sorted prefix
RECURSIVE InsertSorted(_, _)
InsertSorted(sorted, e) ==
    IF sorted = <<>> THEN <<e>>
    ELSE IF KeyLess(e.Key, Head(sorted).Key) THEN <<e>> \o sorted
    ELSE <<Head(sorted)>> \o InsertSorted(Tail(sorted), e)

RECURSIVE SortEntries(_)
SortEntries(entries) ==
    IF entries = <<>> THEN <<>>
    ELSE InsertSorted(SortEntries(Tail(entries)), Head(entries))

\* byte offset of the length prefix of the i-th data record (1-based);
\* for i = Len(data) + 1 the end of the data section
RECURSIVE OffsetOf(_, _)
OffsetOf(data, i) ==
    IF i = 1 THEN 0
    ELSE OffsetOf(data, i - 1) + LengthPrefixBytes + EntryJSONLen(data[i - 1])

\* the sparse index: one entry for every IndexInterval-th record
RECURSIVE BuildIndex(_, _)
BuildIndex(data, i) ==
    IF i > Len(data) THEN <<>>
    ELSE IF (i - 1) % IndexInterval = 0
         THEN <<[Key |-> data[i].Key, Offset |-> OffsetOf(data, i)]>>
              \o BuildIndex(data, i + 1)
         ELSE BuildIndex(data, i + 1)

\* the file WriteSSTable leaves under filePath after the rename
WriteSSTable(entries) ==
    LET data == SortEntries(entries)
    IN  [data   |-> data,
         index  |-> BuildIndex(data, 1),
         footer |-> [Version     |-> SSTableVersion,
                     IndexOffset |-> OffsetOf(data, Len(data) + 1),
                     NumEntries  |-> Len(data)]]

OpenSSTable(filePath, file) ==
    [FilePath |-> filePath, index |-> file.index, footer |-> file.footer]

\* sort.Search(len(index), index[i].Key >= key), 0-based, len(index) if none
SearchIndex(index, key) ==
    LET hits == {i \in 1..Len(index) : ~KeyLess(index[i].Key, key)}
    IN  IF hits = {} THEN Len(index)
        ELSE (CHOOSE i \in hits : \A j \in hits : i <= j) - 1

\* a scan that starts at the index entry the search found, never a block back
StartAtFoundEntry(sst, key) ==
    LET idx == SearchIndex(sst.index, key)
    IN  IF Len(sst.index) = 0 THEN 0
        ELSE IF idx < Len(sst.index) THEN sst.index[idx + 1].Offset
        ELSE sst.index[Len(sst.index)].Offset

\* start of the scan window of Get
StartOffset(sst, key) ==
    LET idx == SearchIndex(sst.index, key)
    IN  IF Len(sst.index) = 0 THEN 0
        ELSE IF idx < Len(sst.index)
             THEN IF sst.index[idx + 1].Key = key THEN sst.index[idx + 1].Offset
                  ELSE IF idx > 0 THEN sst.index[idx].Offset
                  ELSE 0
             ELSE sst.index[Len(sst.index)].Offset

\* end of the scan window of Get
EndOffset(sst, key) ==
    LET idx == SearchIndex(sst.index, key)
    IN  IF Len(sst.index) > 0 /\ idx < Len(sst.index) /\ idx + 1 < Len(sst.index)
        THEN sst.index[idx + 2].Offset
        ELSE sst.footer.IndexOffset

\* a scan loop that takes a tombstone for a miss
RECURSIVE ScanHidingTombstones(_, _, _, _, _)
ScanHidingTombstones(data, i, currentOffset, endOffset, key) ==
    IF currentOffset >= endOffset \/ i > Len(data)
    THEN [value |-> EmptyString, exists |-> FALSE]
    ELSE IF data[i].Key = key
         THEN IF data[i].Deleted
              THEN [value |-> EmptyString, exists |-> FALSE]
              ELSE [value |-> data[i].Value, exists |-> TRUE]
    ELSE IF KeyLess(key, data[i].Key)
         THEN [value |-> EmptyString, exists |-> FALSE]
    ELSE ScanHidingTombstones(data, i + 1,
                              currentOffset + LengthPrefixBytes + EntryJSONLen(data[i]),
                              endOffset, key)

\* the scan loop of Get from record i at currentOffset
RECURSIVE ScanFor(_, _, _, _, _)
ScanFor(data, i, currentOffset, endOffset, key) ==
    IF currentOffset >= endOffset \/ i > Len(data)
    THEN [value |-> EmptyString, exists |-> FALSE]
    ELSE IF data[i].Key = key
         THEN IF data[i].Deleted
              THEN [value |-> EmptyString, exists |-> TRUE]
              ELSE [value |-> data[i].Value, exists |-> TRUE]
    ELSE IF KeyLess(key, data[i].Key)
         THEN [value |-> EmptyString, exists |-> FALSE]
    ELSE ScanFor(data, i + 1,
                 currentOffset + LengthPrefixBytes + EntryJSONLen(data[i]),
                 endOffset, key)

\* SSTable.Get on the file the table's path names
SSTableGet(sst, file, key) ==
    LET start == StartOffset(sst, key)
        first == CHOOSE i \in 1..(Len(file.data) + 1) : OffsetOf(file.data, i) = start
    IN  ScanFor(file.data, first, start, EndOffset(sst, key), key)

\* SSTable.GetAllEntries: every record of the data section in file order
GetAllEntries(sst, file) == file.data

\* ------------------------------------------------------------------------
\* LSM engine (src/sstable/sstable_db.go).  The helpers take and return the
\* engine as a record db = [memtable, sstables, nextSSTableID, dataDir].
\* ------------------------------------------------------------------------

\* the same paths oldest first, the order loadSSTables must not use
RECURSIVE SortAscending(_)
SortAscending(ids) ==
    IF ids = {} THEN <<>>
    ELSE LET least == CHOOSE i \in ids : \A j \in ids : i <= j
         IN  <<least>> \o SortAscending(ids \ {least})

\* A table file of the directory is known by its id: id n stands for the
\* name fmt.Sprintf("sstable_%06d.sst", n), and CopyPath for the name
\* "sstable_copy.sst", which has the prefix and the suffix loadSSTables looks
\* for and no number in between.
CopyPath == -1

\* the decimal digits of n as byte codes ('0' is 48), most significant first
RECURSIVE Digits(_)
Digits(n) == IF n < 10 THEN <<48 + n>> ELSE Digits(n \div 10) \o <<48 + (n % 10)>>

\* %06d: zeros in front up to TableIdWidth characters
RECURSIVE PadZeros(_)
PadZeros(codes) == IF Len(codes) >= TableIdWidth THEN codes ELSE PadZeros(<<48>> \o codes)

\* the bytes of a file name after "sstable_", up to the '.' of ".sst"
NameCodes(path) ==
    IF path = CopyPath THEN <<99, 111, 112, 121, 46>>
    ELSE PadZeros(Digits(path)) \o <<46>>

\* Go's < on two strings given as byte codes
RECURSIVE CodesLess(_, _)
CodesLess(x, y) ==
    IF y = <<>> THEN FALSE
    ELSE IF x = <<>> THEN TRUE
    ELSE IF Head(x) # Head(y) THEN Head(x) < Head(y)
    ELSE CodesLess(Tail(x), Tail(y))

\* sort.Slice(paths, paths[i] > paths[j]): the names as strings, greatest first
RECURSIVE SortDescending(_)
SortDescending(ids) ==
    IF ids = {} THEN <<>>
    ELSE LET greatest == CHOOSE i \in ids :
                            \A j \in ids : j = i \/ CodesLess(NameCodes(j), NameCodes(i))
         IN  <<greatest>> \o SortDescending(ids \ {greatest})

\* maxID of loadSSTables: the greatest id strconv.Atoi reads from a name, -1
\* when no name carries a number
MaxID(ids) ==
    LET numbered == {i \in ids : i # CopyPath}
    IN  IF numbered = {} THEN -1 ELSE CHOOSE i \in numbered : \A j \in numbered : j <= i

\* NewSSTableDB + loadSSTables on a data directory
NewSSTableDB(dir) ==
    LET paths == SortDescending(DOMAIN dir)
    IN  [memtable      |-> NewMemtable,
         sstables      |-> [i \in 1..Len(paths) |-> OpenSSTable(paths[i], dir[paths[i]])],
         nextSSTableID |-> MaxID(DOMAIN dir) + 1,
         dataDir       |-> dir]

\* the directory without the files of the given tables (os.Remove of each)
RemoveFiles(dir, tables) ==
    LET gone == {tables[i].FilePath : i \in 1..Len(tables)}
    IN  [p \in DOMAIN dir \ gone |-> dir[p]]

flushMemtable(db) ==
    IF IsEmpty(db.memtable) THEN db
    ELSE LET entries     == GetSortedEntries(db.memtable)
             sstablePath == db.nextSSTableID
             file        == WriteSSTable(entries)
             sst         == OpenSSTable(sstablePath, file)
         IN  [memtable      |-> Clear(db.memtable),
              sstables      |-> <<sst>> \o db.sstables,
              nextSSTableID |-> db.nextSSTableID + 1,
              dataDir       |-> (sstablePath :> file) @@ db.dataDir]

\* allEntries of compact: tables i..1 of the stack folded oldest first into acc
RECURSIVE CollectEntries(_, _, _)
CollectEntries(db, i, acc) ==
    IF i < 1 THEN acc
    ELSE LET entries == GetAllEntries(db.sstables[i], db.dataDir[db.sstables[i].FilePath])
             latest  == [k \in {entries[j].Key : j \in 1..Len(entries)} |->
                            LET j == CHOOSE j \in 1..Len(entries) :
                                        /\ entries[j].Key = k
                                        /\ \A l \in 1..Len(entries) :
                                              entries[l].Key = k => l <= j
                            IN  entries[j]]
         IN  CollectEntries(db, i - 1, latest @@ acc)

\* the values of a key -> entry map as a slice (map iteration order)
RECURSIVE MapValues(_)
MapValues(m) ==
    IF DOMAIN m = {} THEN <<>>
    ELSE LET k == CHOOSE k \in DOMAIN m : TRUE
         IN  <<m[k]>> \o MapValues([o \in DOMAIN m \ {k} |-> m[o]])

\* the live records of tables i..1 of the stack, one after the other
RECURSIVE AppendedRecords(_, _)
AppendedRecords(db, i) ==
    IF i < 1 THEN <<>>
    ELSE SelectSeq(GetAllEntries(db.sstables[i], db.dataDir[db.sstables[i].FilePath]),
                   LAMBDA e : ~e.Deleted)
         \o AppendedRecords(db, i - 1)

\* a compaction that appends the tables' records instead of merging them by key
compactAppending(db) ==
    IF Len(db.sstables) < 2 THEN db
    ELSE LET compactedEntries == SortEntries(AppendedRecords(db, Len(db.sstables)))
             compactedPath    == db.nextSSTableID
             file             == WriteSSTable(compactedEntries)
             compactedSST     == OpenSSTable(compactedPath, file)
         IN  IF Len(compactedEntries) = 0
             THEN [db EXCEPT !.sstables = <<>>,
                             !.dataDir  = RemoveFiles(db.dataDir, db.sstables)]
             ELSE [db EXCEPT !.sstables      = <<compactedSST>>,
                             !.nextSSTableID = db.nextSSTableID + 1,
                             !.dataDir       = (compactedPath :> file)
                                               @@ RemoveFiles(db.dataDir, db.sstables)]

compact(db) ==
    IF Len(db.sstables) < 2 THEN db
    ELSE LET allEntries       == CollectEntries(db, Len(db.sstables), <<>>)
             live             == {k \in DOMAIN allEntries : ~allEntries[k].Deleted}
             compactedEntries == SortEntries(MapValues([k \in live |-> allEntries[k]]))
             compactedPath    == db.nextSSTableID
             file             == WriteSSTable(compactedEntries)
             compactedSST     == OpenSSTable(compactedPath, file)
         IN  IF Len(compactedEntries) = 0
             THEN [db EXCEPT !.sstables = <<>>,
                             !.dataDir  = RemoveFiles(db.dataDir, db.sstables)]
             ELSE [db EXCEPT !.sstables      = <<compactedSST>>,
                             !.nextSSTableID = db.nextSSTableID + 1,
                             !.dataDir       = (compactedPath :> file)
                                               @@ RemoveFiles(db.dataDir, db.sstables)]

\* a flush-and-compact tail that leaves the compaction to a later call
FlushWithoutCompact(db) ==
    IF Size(db.memtable) >= MemtableFlushThreshold THEN flushMemtable(db) ELSE db

\* the flush-and-compact tail shared by Write and Delete
FlushIfFull(db) ==
    IF Size(db.memtable) >= MemtableFlushThreshold
    THEN LET flushed == flushMemtable(db)
         IN  IF Len(flushed.sstables) >= CompactionThreshold
             THEN compact(flushed)
             ELSE flushed
    ELSE db

SSTableDBWrite(db, key, value) == FlushIfFull([db EXCEPT !.memtable = MemtablePut(db.memtable, key, value)])

SSTableDBDelete(db, key) == FlushIfFull([db EXCEPT !.memtable = MemtableDelete(db.memtable, key)])

\* the table loop of Read from stack position i
RECURSIVE ReadTables(_, _, _)
ReadTables(db, i, key) ==
    IF i > Len(db.sstables) THEN [value |-> EmptyString, ok |-> FALSE]
    ELSE LET got == SSTableGet(db.sstables[i], db.dataDir[db.sstables[i].FilePath], key)
         IN  IF got.exists
             THEN IF got.value = EmptyString
                  THEN [value |-> EmptyString, ok |-> FALSE]
                  ELSE [value |-> got.value, ok |-> TRUE]
             ELSE ReadTables(db, i + 1, key)

\* a Read that keeps the value it found in a table in the memtable
SSTableDBReadCaches(db, key) ==
    IF ~MemtableGet(db.memtable, key).found /\ ReadTables(db, 1, key).ok
    THEN [db EXCEPT !.memtable = MemtablePut(db.memtable, key, ReadTables(db, 1, key).value)]
    ELSE db

\* the instance as Read leaves it: Read assigns to no field and writes no file
SSTableDBAfterRead(db, key) == db

\* (value, ok): ok is false when Read returns the key-not-found error
SSTableDBRead(db, key) ==
    IF MemtableGet(db.memtable, key).found
    THEN [value |-> MemtableGet(db.memtable, key).value, ok |-> TRUE]
    ELSE ReadTables(db, 1, key)

SSTableDBCompact(db) ==
    compact(IF ~IsEmpty(db.memtable) THEN flushMemtable(db) ELSE db)

SSTableDBFlush(db) == flushMemtable(db)

SSTableDBClose(db) == IF ~IsEmpty(db.memtable) THEN flushMemtable(db) ELSE db

\* ------------------------------------------------------------------------
\* The engines a specification does not exercise stay as constructed
\* ------------------------------------------------------------------------

Procs == {"p1", "p2", "p3"}

\* the goroutines that call into one instance
Threads == {"t1", "t2", "t3"}

\* a thread that has made no call yet
IdleThread ==
    [pc |-> "idle", op |-> "", key |-> "", value |-> EmptyString,
     local |-> <<>>, ret |-> <<>>]

\* the zero sync.RWMutex
Unlocked == [writer |-> "none", readers |-> {}]

LsmIdle ==
    /\ memtable = NewMemtable
    /\ sstables = <<>>
    /\ nextSSTableID = 0
    /\ dataDir = <<>>
    /\ phase = "open"
    /\ crashed = FALSE
    /\ dbMu = Unlocked
    /\ dbThreads = [t \in Threads |-> IdleThread]

LockIdle ==
    /\ lockPath = 0
    /\ flockOwner = <<>>
    /\ lockFile = [p \in Procs |-> 0]
    /\ pc = [p \in Procs |-> "idle"]
    /\ inodes = 0

LogIdle ==
    /\ logFile = <<>>
    /\ logExists = TRUE
    /\ logTail = <<>>
    /\ logTemps = <<>>
    /\ mu = Unlocked
    /\ logThreads = [t \in Threads |-> IdleThread]

\* no table written, no Get made
NoFile == [data |-> <<>>, index |-> <<>>,
           footer |-> [Version |-> 0, IndexOffset |-> 0, NumEntries |-> 0]]

NoGet == [key |-> "", value |-> EmptyString, exists |-> FALSE, reads |-> 0, done |-> FALSE]

\* no Read answered yet
NoRead == [engine |-> "", key |-> "", ret |-> [value |-> EmptyString, err |-> ""],
           done |-> FALSE]

\* no flush and no compaction is writing a table
NoTableWrite == [pc |-> "idle", op |-> "", path |-> 0, entries |-> <<>>]

TableIdle ==
    /\ tableFile = NoFile
    /\ table = [FilePath |-> -1, index |-> <<>>, footer |-> NoFile.footer]
    /\ lastGet = NoGet
    /\ tmpFiles = <<>>
    /\ tableWrite = NoTableWrite

HashIdle ==
    /\ hashFile = <<>>
    /\ hashTail = 0
    /\ byteOffsetIndex = <<>>
    /\ hashThreads = [t \in Threads |-> IdleThread]

\* ------------------------------------------------------------------------
\* LSM engine: actions
\* ------------------------------------------------------------------------

\* the engine instance as the record the helpers take
lsm == [memtable |-> memtable, sstables |-> sstables,
        nextSSTableID |-> nextSSTableID, dataDir |-> dataDir]

SetDB(new) ==
    /\ memtable' = new.memtable
    /\ sstables' = new.sstables
    /\ nextSSTableID' = new.nextSSTableID
    /\ dataDir' = new.dataDir

NeverWritten == [written |-> FALSE, deleted |-> FALSE, value |-> EmptyString]

\* what the engine contract makes Read return for a key
Expected(k) ==
    IF effective[k].written /\ ~effective[k].deleted
    THEN [value |-> effective[k].value, ok |-> TRUE]
    ELSE [value |-> EmptyString, ok |-> FALSE]

\* the contract admits non-empty keys only
Accept(k, rec) == IF k = "" THEN effective ELSE [effective EXCEPT ![k] = rec]

\* The directory an earlier instance leaves after
\*   Write("a","v"); Flush; Write("b","v"); Flush; Delete("a"); Flush; Close
\* and the records that instance accepted.
UsedDir ==
    SSTableDBClose(SSTableDBFlush(SSTableDBDelete(
        SSTableDBFlush(SSTableDBWrite(
            SSTableDBFlush(SSTableDBWrite(NewSSTableDB(<<>>), "a", Repeat("v", 1))),
            "b", Repeat("v", 1))),
        "a"))).dataDir

UsedEffective ==
    [k \in LsmKeys |->
        IF k = "a" THEN [written |-> TRUE, deleted |-> TRUE, value |-> EmptyString]
        ELSE IF k = "b" THEN [written |-> TRUE, deleted |-> FALSE, value |-> Repeat("v", 1)]
        ELSE NeverWritten]

\* NewSSTableDB on a fresh directory, or on the used one
InitLsmEngine ==
    /\ \E fresh \in BOOLEAN :
        /\ dataDir = IF fresh THEN <<>> ELSE UsedDir
        /\ effective = IF fresh THEN [k \in LsmKeys |-> NeverWritten] ELSE UsedEffective
    /\ memtable = NewSSTableDB(dataDir).memtable
    /\ sstables = NewSSTableDB(dataDir).sstables
    /\ nextSSTableID = NewSSTableDB(dataDir).nextSSTableID
    /\ phase = "open"
    /\ crashed = FALSE
    /\ dbMu = Unlocked
    /\ dbThreads = [t \in Threads |-> IdleThread]
    /\ writes = 0

InitLSM ==
    /\ InitLsmEngine
    /\ LockIdle
    /\ TableIdle
    /\ lastRead = NoRead
    /\ LogIdle
    /\ HashIdle

LsmWrite ==
    \E kv \in LsmWrites :
        /\ writes < MaxWrites
        /\ nextSSTableID < MaxTableId
        /\ SetDB(SSTableDBWrite(lsm, kv[1], kv[2]))
        /\ effective' = Accept(kv[1], [written |-> TRUE, deleted |-> FALSE, value |-> kv[2]])
        /\ phase' = "open"
        /\ writes' = writes + 1
        /\ UNCHANGED <<crashed, dbMu, dbThreads, lockVars, logVars, hashVars, tableVars, lastRead>>

LsmDelete ==
    \E k \in LsmKeys :
        /\ writes < MaxWrites
        /\ nextSSTableID < MaxTableId
        /\ SetDB(SSTableDBDelete(lsm, k))
        /\ effective' = Accept(k, [written |-> TRUE, deleted |-> TRUE, value |-> EmptyString])
        /\ phase' = "open"
        /\ writes' = writes + 1
        /\ UNCHANGED <<crashed, dbMu, dbThreads, lockVars, logVars, hashVars, tableVars, lastRead>>

LsmRead ==
    \E k \in LsmKeys :
        /\ SSTableDBRead(lsm, k).ok \in BOOLEAN
        /\ UNCHANGED vars

LsmFlush ==
    /\ nextSSTableID < MaxTableId
    /\ SetDB(SSTableDBFlush(lsm))
    /\ UNCHANGED <<effective, phase, crashed, dbMu, dbThreads, writes, lockVars, logVars, hashVars, tableVars, lastRead>>

LsmCompact ==
    /\ nextSSTableID < MaxTableId
    /\ SetDB(SSTableDBCompact(lsm))
    /\ UNCHANGED <<effective, phase, crashed, dbMu, dbThreads, writes, lockVars, logVars, hashVars, tableVars, lastRead>>

LsmClose ==
    /\ nextSSTableID < MaxTableId
    /\ SetDB(SSTableDBClose(lsm))
    /\ phase' = "closed"
    /\ UNCHANGED <<effective, crashed, dbMu, dbThreads, writes, lockVars, logVars, hashVars, tableVars, lastRead>>

\* a new instance on the same directory; the old instance's memory is gone.
\* Without a Close before it this is the restart after a crash, followed once.
LsmOpen ==
    /\ phase = "open" => ~crashed
    /\ SetDB(NewSSTableDB(dataDir))
    /\ phase' = IF phase = "open" THEN "recovered"
                ELSE IF phase = "closed" THEN "reopened" ELSE phase
    /\ crashed' = (crashed \/ phase = "open")
    /\ UNCHANGED <<dbMu, dbThreads>>
    /\ UNCHANGED <<effective, writes, lockVars, logVars, hashVars, tableVars, lastRead>>

NextLSM ==
    \/ LsmWrite
    \/ LsmDelete
    \/ LsmRead
    \/ LsmFlush
    \/ LsmCompact
    \/ LsmClose
    \/ LsmOpen

SpecLSM == InitLSM /\ [][NextLSM]_vars

\* ------------------------------------------------------------------------
\* LSM engine: properties
\* ------------------------------------------------------------------------

\* the keys the engine contract admits
RealKeys == LsmKeys \ {""}

\* C1: on one instance, a key whose most recent mutation is Delete reads as
\* absent, also while the tombstone is still in the memtable.
C1_DeletedKeyReadsAbsent ==
    (phase = "open" /\ ~crashed) =>
        \A k \in RealKeys :
            (effective[k].written /\ effective[k].deleted) => ~SSTableDBRead(lsm, k).ok

\* C2: a key whose most recent mutation is Write(K, "") reads as "" wherever
\* the record lives (memtable or sorted table, before or after reopening).
C2_EmptyValueIsReadable ==
    ~crashed =>
        \A k \in RealKeys :
            (effective[k].written /\ ~effective[k].deleted
                /\ effective[k].value = EmptyString)
            => SSTableDBRead(lsm, k) = [value |-> EmptyString, ok |-> TRUE]

\* C3: a Write that starts with CompactionThreshold or more tables on the
\* stack returns with at most one table on the stack and in the directory.
C3_WriteCompactsFullStack ==
    [][(LsmWrite /\ Len(sstables) >= CompactionThreshold)
        => (Len(sstables') <= 1 /\ Cardinality(DOMAIN dataDir') <= 1)]_vars

\* C8: after a clean Close, a new instance on the directory reads for every
\* key the effective value of the calls made before the Close.
C8_ReopenReadsEffectiveValues ==
    (phase = "reopened" /\ ~crashed) =>
        \A k \in RealKeys : SSTableDBRead(lsm, k) = Expected(k)

\* C9: a value whose Write returned ok is read back after a restart that
\* was not preceded by Close.
C9_AcknowledgedWriteSurvivesCrash ==
    phase = "recovered" =>
        \A k \in RealKeys : Expected(k).ok => SSTableDBRead(lsm, k) = Expected(k)

\* ------------------------------------------------------------------------
\* Log engine: the lock file (src/log/log.go, NewLog and Close).  Each
\* process runs NewLog and Close on the same path; a step is one system call.
\* ------------------------------------------------------------------------

\* os.OpenFile(lockPath, O_CREATE|O_RDWR): opens the inode the name refers
\* to, creating one when the name does not exist
NewLogOpenLockFile(p) ==
    /\ pc[p] \in {"idle", "done"}
    /\ IF lockPath = 0
       THEN /\ inodes < MaxInodes
            /\ inodes' = inodes + 1
            /\ flockOwner' = Append(flockOwner, "none")
            /\ lockPath' = inodes + 1
            /\ lockFile' = [lockFile EXCEPT ![p] = inodes + 1]
       ELSE /\ lockFile' = [lockFile EXCEPT ![p] = lockPath]
            /\ UNCHANGED <<inodes, flockOwner, lockPath>>
    /\ pc' = [pc EXCEPT ![p] = "flock"]
    /\ UNCHANGED <<lsmVars, logVars, hashVars, effective, writes, tableVars, lastRead>>

\* syscall.Flock(fd, LOCK_EX|LOCK_NB); on failure the descriptor is closed
\* and NewLog returns the already-in-use error
NewLogFlock(p) ==
    /\ pc[p] = "flock"
    /\ IF flockOwner[lockFile[p]] = "none"
       THEN /\ flockOwner' = [flockOwner EXCEPT ![lockFile[p]] = p]
            /\ pc' = [pc EXCEPT ![p] = "locked"]
            /\ UNCHANGED lockFile
       ELSE /\ lockFile' = [lockFile EXCEPT ![p] = 0]
            /\ pc' = [pc EXCEPT ![p] = "idle"]
            /\ UNCHANGED flockOwner
    /\ UNCHANGED <<lockPath, inodes, lsmVars, logVars, hashVars, effective, writes, tableVars, lastRead>>

\* the log file is there (or was created, or compacted): NewLog returns db
NewLogReturn(p) ==
    /\ pc[p] = "locked"
    /\ pc' = [pc EXCEPT ![p] = "open"]
    /\ UNCHANGED <<lockPath, flockOwner, lockFile, inodes,
                   lsmVars, logVars, hashVars, effective, writes, tableVars, lastRead>>

\* creating or compacting the log file failed: NewLog calls db.Close()
NewLogFail(p) ==
    /\ pc[p] = "locked"
    /\ pc' = [pc EXCEPT ![p] = "failed"]
    /\ UNCHANGED <<lockPath, flockOwner, lockFile, inodes,
                   lsmVars, logVars, hashVars, effective, writes, tableVars, lastRead>>

\* Close: syscall.Flock(fd, LOCK_UN)
CloseUnlock(p) ==
    /\ pc[p] \in {"open", "failed"}
    /\ flockOwner' = [flockOwner EXCEPT ![lockFile[p]] = "none"]
    /\ pc' = [pc EXCEPT ![p] = "unlocked"]
    /\ UNCHANGED <<lockPath, lockFile, inodes,
                   lsmVars, logVars, hashVars, effective, writes, tableVars, lastRead>>

\* Close: l.lockFile.Close()
CloseLockFile(p) ==
    /\ pc[p] = "unlocked"
    /\ pc' = [pc EXCEPT ![p] = "closed"]
    /\ UNCHANGED <<lockPath, flockOwner, lockFile, inodes,
                   lsmVars, logVars, hashVars, effective, writes, tableVars, lastRead>>

\* Close: os.Remove(lockPath), a missing file is not an error; l.lockFile = nil
CloseRemove(p) ==
    /\ pc[p] = "closed"
    /\ lockPath' = 0
    /\ lockFile' = [lockFile EXCEPT ![p] = 0]
    /\ pc' = [pc EXCEPT ![p] = "done"]
    /\ UNCHANGED <<flockOwner, inodes, lsmVars, logVars, hashVars, effective, writes, tableVars, lastRead>>

\* a Close that does not test l.lockFile for nil and removes the lock file
\* by name once more
CloseAgainRemoves(p) ==
    /\ pc[p] = "done"
    /\ lockFile[p] = 0
    /\ lockPath' = 0
    /\ UNCHANGED <<flockOwner, lockFile, pc, inodes,
                   lsmVars, logVars, hashVars, effective, writes, tableVars, lastRead>>

\* Close on an instance that was closed before (pc is "done" once Close has
\* returned): l.lockFile is nil and Close returns at once
CloseNil(p) ==
    /\ pc[p] = "done"
    /\ lockFile[p] = 0
    /\ UNCHANGED vars

InitLock ==
    /\ LockIdle
    /\ TableIdle
    /\ lastRead = NoRead
    /\ LsmIdle
    /\ LogIdle
    /\ HashIdle
    /\ effective = <<>>
    /\ writes = 0

NextLock ==
    \/ \E p \in Procs : NewLogOpenLockFile(p)
    \/ \E p \in Procs : NewLogFlock(p)
    \/ \E p \in Procs : NewLogReturn(p)
    \/ \E p \in Procs : NewLogFail(p)
    \/ \E p \in Procs : CloseUnlock(p)
    \/ \E p \in Procs : CloseLockFile(p)
    \/ \E p \in Procs : CloseRemove(p)
    \/ \E p \in Procs : CloseNil(p)

SpecLock == InitLock /\ [][NextLock]_vars

\* a process holds the database open from NewLog's successful return until
\* it calls Close
Holds(p) == pc[p] = "open"

\* no process is inside NewLog or Close
Quiescent == \A p \in Procs : pc[p] \in {"idle", "open", "done"}

\* C4: at no time do two instances hold the database open.
C4_AtMostOneHolder == Cardinality({p \in Procs : Holds(p)}) <= 1

\* C5: whenever no call is in progress, the lock file exists exactly when
\* some instance holds the database open.
C5_LockFileIffHeld == Quiescent => (lockPath # 0 <=> \E p \in Procs : Holds(p))

\* ------------------------------------------------------------------------
\* Close called twice.  The LSM engine and the log engine's lock share no
\* state: a behaviour works with an LSM instance and, once that is closed,
\* with log instances.
\* ------------------------------------------------------------------------

NextClose ==
    \/ LockIdle /\ NextLSM
    \/ phase = "closed" /\ writes = 0 /\ NextLock

SpecClose == InitLSM /\ [][NextClose]_vars

CurrentLine(key, value, deleted) ==
    [shape |-> "current", key |-> key, value |-> value, deleted |-> deleted]

\* a line of the legacy shape {"K":"V"}
LegacyLine(key, value) ==
    [shape |-> "legacy", key |-> key, value |-> value, deleted |-> FALSE]

\* a line that is no JSON object of either shape; value is its text
MalformedLine(text) ==
    [shape |-> "malformed", key |-> "", value |-> text, deleted |-> FALSE]

\* bytes of a line without its newline
LineLen(line) ==
    IF line.shape = "current"
    THEN 36 + Len(line.key) + StrLen(line.value) + (IF line.deleted THEN 0 ELSE 1)
    ELSE IF line.shape = "legacy"
    THEN 7 + Len(line.key) + StrLen(line.value)
    ELSE StrLen(line.value)

\* a value of at most one character as a key
AsKey(value) == IF StrLen(value) = 0 THEN "" ELSE value.ch

\* json.Unmarshal(line, &entry) with entry a LogEntry: the entry it fills
\* and whether it returns an error.  A member of a legacy line is matched
\* against the names key, value and deleted like any other member; a string
\* for the boolean deleted is an error.
EntryOf(line) ==
    IF line.shape = "current"
    THEN [key |-> line.key, value |-> line.value, deleted |-> line.deleted, err |-> FALSE]
    ELSE IF line.shape = "legacy"
    THEN [key     |-> IF line.key = "key" THEN AsKey(line.value) ELSE "",
          value   |-> IF line.key = "value" THEN line.value ELSE EmptyString,
          deleted |-> FALSE,
          err     |-> line.key = "deleted"]
    ELSE [key |-> "", value |-> EmptyString, deleted |-> FALSE, err |-> TRUE]

\* the test err == nil && entry.Key != ""
IsCurrentEntry(line) == ~EntryOf(line).err /\ EntryOf(line).key # ""

\* json.Unmarshal(line, &oldEntry) with oldEntry a map[string]string: a line
\* of the current shape fails it, its "deleted" member is a boolean
IsOldEntry(line) == line.shape = "legacy"

\* bufio.Scanner: the lines Scan delivers before it stops
RECURSIVE Scanned(_)
Scanned(file) ==
    IF file = <<>> \/ LineLen(Head(file)) >= MaxScanTokenSize THEN <<>>
    ELSE <<Head(file)>> \o Scanned(Tail(file))

\* scanner.Err() != nil: Scan stopped at a line longer than its buffer
ScanFailed(file) == Len(Scanned(file)) < Len(file)

LogWrite(file, key, value) == Append(file, CurrentLine(key, value, FALSE))

LogDelete(file, key) == Append(file, CurrentLine(key, EmptyString, TRUE))

\* found, latestValue and isDeleted of Read after the first i scanned lines
RECURSIVE ReadLoop(_, _, _)
ReadLoop(lines, i, key) ==
    IF i = 0 THEN [found |-> FALSE, latestValue |-> EmptyString, isDeleted |-> FALSE]
    ELSE IF IsCurrentEntry(lines[i])
         THEN IF EntryOf(lines[i]).key = key
              THEN [found |-> TRUE, latestValue |-> EntryOf(lines[i]).value,
                    isDeleted |-> EntryOf(lines[i]).deleted]
              ELSE ReadLoop(lines, i - 1, key)
    ELSE IF IsOldEntry(lines[i]) /\ lines[i].key = key
         THEN [found |-> TRUE, latestValue |-> lines[i].value, isDeleted |-> FALSE]
    ELSE ReadLoop(lines, i - 1, key)

\* (value, err): err is "" for a value, else the error Read returns
LogRead(file, key) ==
    LET lines == Scanned(file)
        got   == ReadLoop(lines, Len(lines), key)
    IN  IF ScanFailed(file) THEN [value |-> EmptyString, err |-> "error scanning file"]
        ELSE IF ~got.found THEN [value |-> EmptyString, err |-> "key not found"]
        ELSE IF got.isDeleted THEN [value |-> EmptyString, err |-> "key has been deleted"]
        ELSE [value |-> got.latestValue, err |-> ""]

\* the file as Read leaves it: opened read-only and scanned
LogAfterRead(file, key) == file

\* latestEntries of compact after the first i lines
RECURSIVE LatestEntries(_, _)
LatestEntries(lines, i) ==
    IF i = 0 THEN <<>>
    ELSE IF IsCurrentEntry(lines[i])
         THEN (EntryOf(lines[i]).key :>
                  CurrentLine(EntryOf(lines[i]).key, EntryOf(lines[i]).value,
                              EntryOf(lines[i]).deleted))
              @@ LatestEntries(lines, i - 1)
    ELSE IF IsOldEntry(lines[i])
         THEN (lines[i].key :> CurrentLine(lines[i].key, lines[i].value, FALSE))
              @@ LatestEntries(lines, i - 1)
    ELSE LatestEntries(lines, i - 1)

\* the orders in which a range over the map may visit the given keys
Orders(keys) ==
    {o \in [1..Cardinality(keys) -> keys] : \A i, j \in DOMAIN o : o[i] = o[j] => i = j}

\* a compact that leaves out the entry its range visits last
compactDroppingLast(file, order) ==
    IF ScanFailed(file) THEN file
    ELSE LET latest == LatestEntries(file, Len(file))
         IN  [i \in 1..(Len(order) - 1) |-> latest[order[i]]]

\* the file compact leaves when the map is visited in the given order;
\* a scan error leaves the file as it is
compactLog(file, order) ==
    IF ScanFailed(file) THEN file
    ELSE LET latest == LatestEntries(file, Len(file))
         IN  [i \in 1..Len(order) |-> latest[order[i]]]

\* the keys compact writes out: those whose latest entry is no tombstone
Survivors(file) ==
    LET latest == LatestEntries(file, Len(file))
    IN  {k \in DOMAIN latest : ~latest[k].deleted}

InitLog ==
    /\ LogIdle
    /\ LsmIdle
    /\ LockIdle
    /\ TableIdle
    /\ lastRead = NoRead
    /\ HashIdle
    /\ effective = [k \in LogKeys |-> NeverWritten]
    /\ writes = 0

DoLogWrite ==
    \E k \in LogKeys, v \in Values :
        /\ writes < MaxWrites
        /\ logExists   \* os.OpenFile without O_CREATE fails on a missing file
        /\ logFile' = LogWrite(logFile, k, v)
        /\ UNCHANGED <<logExists, logTail, logTemps, mu, logThreads>>
        /\ effective' = Accept(k, [written |-> TRUE, deleted |-> FALSE, value |-> v])
        /\ writes' = writes + 1
        /\ UNCHANGED <<lsmVars, lockVars, hashVars, tableVars, lastRead>>

DoLogDelete ==
    \E k \in LogKeys :
        /\ writes < MaxWrites
        /\ logExists
        /\ logFile' = LogDelete(logFile, k)
        /\ UNCHANGED <<logExists, logTail, logTemps, mu, logThreads>>
        /\ effective' = Accept(k, [written |-> TRUE, deleted |-> TRUE, value |-> EmptyString])
        /\ writes' = writes + 1
        /\ UNCHANGED <<lsmVars, lockVars, hashVars, tableVars, lastRead>>

DoLogRead ==
    \E k \in LogKeys :
        /\ LogRead(logFile, k).err \in STRING
        /\ UNCHANGED vars

DoLogCompact ==
    \E order \in Orders(Survivors(logFile)) :
        /\ logFile' = compactLog(logFile, order)
        /\ UNCHANGED <<logExists, logTail, logTemps, mu, logThreads>>
        /\ UNCHANGED <<lsmVars, lockVars, hashVars, effective, writes, tableVars, lastRead>>

NextLog ==
    \/ DoLogWrite
    \/ DoLogDelete
    \/ DoLogRead
    \/ DoLogCompact

SpecLog == InitLog /\ [][NextLog]_vars

\* C6: Read of a non-empty key returns the value of the most recent Write
\* when no Delete followed it, and reports absence otherwise.
C6_LogReadsLatestWrite ==
    \A k \in LogKeys \ {""} :
        IF Expected(k).ok
        THEN LogRead(logFile, k) = [value |-> Expected(k).value, err |-> ""]
        ELSE LogRead(logFile, k).err \in {"key not found", "key has been deleted"}

\* ------------------------------------------------------------------------
\* Hash-index engine (src/hashkv/hashkv.go)
\* ------------------------------------------------------------------------

\* the values offered to the hash engine
HashValues == {EmptyString, Repeat("v", 1), Repeat("w", 2)}

\* the names a range over a decoded JSON object may yield first
MemberNames == {"key", "value", "deleted"}

\* LogEntry{Key, Value, Deleted} as Write and Delete marshal it
HashKVEntry(key, value, deleted) == [key |-> key, value |-> value, deleted |-> deleted]

\* bytes of a record in the file: the int64 length and the JSON
RecordLen(rec) ==
    LengthPrefixBytes + 36 + Len(rec.key) + StrLen(rec.value)
        + (IF rec.deleted THEN 0 ELSE 1)

\* byte offset of record i of the file
RECURSIVE RecordOffset(_, _)
RecordOffset(file, i) ==
    IF i = 1 THEN 0 ELSE RecordOffset(file, i - 1) + RecordLen(file[i - 1])

\* fileInfo.Size()
FileSize(file) == RecordOffset(file, Len(file) + 1)

\* the record that starts at the offset
RecordAt(file, offset) ==
    file[CHOOSE i \in 1..Len(file) : RecordOffset(file, i) = offset]

HashKVWrite(h, key, value) ==
    [file  |-> Append(h.file, HashKVEntry(key, value, FALSE)),
     index |-> (key :> FileSize(h.file)) @@ h.index]

HashKVDelete(h, key) ==
    [file  |-> Append(h.file, HashKVEntry(key, EmptyString, TRUE)),
     index |-> [k \in (DOMAIN h.index) \ {key} |-> h.index[k]]]

\* (value, err): a record whose Key decodes empty takes the legacy branch,
\* where decoding into map[string]string fails on the boolean member
HashKVRead(h, key) ==
    IF key \notin DOMAIN h.index
    THEN [value |-> EmptyString, err |-> "key not found"]
    ELSE LET entry == RecordAt(h.file, h.index[key])
         IN  IF entry.key # ""
             THEN [value |-> entry.value, err |-> ""]
             ELSE [value |-> EmptyString, err |-> "error unmarshalling entry"]

\* the instance as Read leaves it: the index is looked up, the file opened
\* read-only
HashKVAfterRead(h, key) == h

\* latestEntries of NewHashKV after the first i records: name -> record
\* number and deleted flag; first[j] is the member a range over the decoded
\* object of record j yields first
RECURSIVE RebuildLoop(_, _, _)
RebuildLoop(file, i, first) ==
    IF i = 0 THEN <<>>
    ELSE IF file[i].key # ""
         THEN (file[i].key :> [rec |-> i, deleted |-> file[i].deleted])
              @@ RebuildLoop(file, i - 1, first)
         ELSE (first[i] :> [rec |-> i, deleted |-> FALSE])
              @@ RebuildLoop(file, i - 1, first)

NewHashKV(file, first) ==
    LET latestEntries == RebuildLoop(file, Len(file), first)
        live == {k \in DOMAIN latestEntries : ~latestEntries[k].deleted}
    IN  [file  |-> file,
         index |-> [k \in live |-> RecordOffset(file, latestEntries[k].rec)]]

hashkv == [file |-> hashFile, index |-> byteOffsetIndex]

SetHashKV(new) ==
    /\ hashFile' = new.file
    /\ byteOffsetIndex' = new.index
    /\ UNCHANGED <<hashTail, hashThreads>>

InitHash ==
    /\ HashIdle
    /\ LsmIdle
    /\ LockIdle
    /\ TableIdle
    /\ lastRead = NoRead
    /\ LogIdle
    /\ effective = [k \in HashKeys |-> NeverWritten]
    /\ writes = 0

DoHashWrite ==
    \E k \in HashKeys, v \in HashValues :
        /\ writes < MaxWrites
        /\ SetHashKV(HashKVWrite(hashkv, k, v))
        /\ effective' = Accept(k, [written |-> TRUE, deleted |-> FALSE, value |-> v])
        /\ writes' = writes + 1
        /\ UNCHANGED <<lsmVars, lockVars, logVars, tableVars, lastRead>>

DoHashDelete ==
    \E k \in HashKeys :
        /\ writes < MaxWrites
        /\ SetHashKV(HashKVDelete(hashkv, k))
        /\ effective' = Accept(k, [written |-> TRUE, deleted |-> TRUE, value |-> EmptyString])
        /\ writes' = writes + 1
        /\ UNCHANGED <<lsmVars, lockVars, logVars, tableVars, lastRead>>

DoHashRead ==
    \E k \in HashKeys :
        /\ HashKVRead(hashkv, k).err \in STRING
        /\ UNCHANGED vars

DoHashOpen ==
    \E first \in [1..Len(hashFile) -> MemberNames] :
        /\ SetHashKV(NewHashKV(hashFile, first))
        /\ UNCHANGED <<lsmVars, lockVars, logVars, effective, writes, tableVars, lastRead>>

NextHash ==
    \/ DoHashWrite
    \/ DoHashDelete
    \/ DoHashRead
    \/ DoHashOpen

SpecHash == InitHash /\ [][NextHash]_vars

\* C7: opening the hash engine's file again rebuilds the very index the
\* running instance held, and every Read answers as it did before.
C7_ReopenRebuildsSameIndex ==
    [][DoHashOpen =>
        /\ byteOffsetIndex' = byteOffsetIndex
        /\ \A k \in HashKeys :
              HashKVRead([file |-> hashFile', index |-> byteOffsetIndex'], k)
                  = HashKVRead(hashkv, k)]_vars

\* C10: no engine ever stores a record, an index entry or a memtable entry
\* under the empty key.
C10_EmptyKeyNeverStored ==
    /\ "" \notin DOMAIN memtable.entries
    /\ \A i \in DOMAIN logFile : logFile[i].key # ""
    /\ \A i \in DOMAIN hashFile : hashFile[i].key # ""
    /\ "" \notin DOMAIN byteOffsetIndex


\* ------------------------------------------------------------------------
\* Delete of a key that has no effective value
\* ------------------------------------------------------------------------

\* C12: a Delete of a key that has no effective value (never written, or
\* deleted already) leaves the key absent and every other key's Read result
\* as it was (LSM engine).
C12_DeleteOfAbsentKeyKeepsAbsence ==
    [][\A k \in RealKeys :
          (/\ LsmDelete
           /\ ~crashed
           /\ ~Expected(k).ok
           /\ lsm' = SSTableDBDelete(lsm, k))
          => /\ ~SSTableDBRead(lsm', k).ok
             /\ \A o \in RealKeys \ {k} : SSTableDBRead(lsm', o) = SSTableDBRead(lsm, o)
      ]_vars


\* ------------------------------------------------------------------------
\* Log engine: several threads on one instance (src/log/log.go).  Each
\* thread makes one call; a step is a lock operation or a file operation.
\* effective is here the file the calls produce when each takes effect at
\* once, in the order of their critical sections.
\* ------------------------------------------------------------------------

\* the calls the threads choose from
LogCalls ==
    {[op |-> "Write",   key |-> "a", value |-> Repeat("v", 1)],
     [op |-> "Write",   key |-> "a", value |-> Repeat("w", 2)],
     [op |-> "Write",   key |-> "b", value |-> Repeat("v", 1)],
     [op |-> "Delete",  key |-> "a", value |-> EmptyString],
     [op |-> "Compact", key |-> "",  value |-> EmptyString],
     [op |-> "Read",    key |-> "a", value |-> EmptyString]}

\* the file an earlier run of the instance left
UsedLog ==
    LogWrite(LogWrite(LogWrite(<<>>, "a", Repeat("u", 1)), "b", Repeat("u", 1)),
             "a", Repeat("v", 1))

\* a lock that is granted whatever the mutex holds
LockUnguarded(m, t) == TRUE

\* l.mu.Lock() returns: no writer and no reader holds the mutex
CanLock(m, t) == m.writer = "none" /\ m.readers = {}

\* l.mu.RLock() returns: no writer holds the mutex
CanRLock(m, t) == m.writer = "none"

SetThread(t, rec) == logThreads' = [logThreads EXCEPT ![t] = rec]

\* a thread calls Write, Delete, Compact or Read
LogCall(t) ==
    /\ logThreads[t].pc = "idle"
    /\ \E c \in LogCalls :
          SetThread(t, [logThreads[t] EXCEPT !.pc = "lock", !.op = c.op,
                                             !.key = c.key, !.value = c.value])
    /\ UNCHANGED <<lsmVars, lockVars, hashVars, logFile, logExists, logTail, logTemps, mu, effective, writes, tableVars, lastRead>>

\* l.mu.Lock() of Write, Delete and Compact
LogLock(t) ==
    /\ logThreads[t].pc = "lock"
    /\ logThreads[t].op \in {"Write", "Delete", "Compact"}
    /\ CanLock(mu, t)
    /\ mu' = [mu EXCEPT !.writer = t]
    /\ SetThread(t, [logThreads[t] EXCEPT !.pc = "locked"])
    /\ UNCHANGED <<lsmVars, lockVars, hashVars, logFile, logExists, logTail, logTemps, effective, writes, tableVars, lastRead>>

\* l.mu.RLock() of Read
LogRLock(t) ==
    /\ logThreads[t].pc = "lock"
    /\ logThreads[t].op = "Read"
    /\ CanRLock(mu, t)
    /\ mu' = [mu EXCEPT !.readers = @ \cup {t}]
    /\ SetThread(t, [logThreads[t] EXCEPT !.pc = "locked"])
    /\ UNCHANGED <<lsmVars, lockVars, hashVars, logFile, logExists, logTail, logTemps, effective, writes, tableVars, lastRead>>

\* Write and Delete: file.Write(marshalled); the line has no newline yet
LogWriteData(t) ==
    /\ logThreads[t].pc = "locked"
    /\ logThreads[t].op \in {"Write", "Delete"}
    /\ logFile' = IF logThreads[t].op = "Write"
                  THEN LogWrite(logFile, logThreads[t].key, logThreads[t].value)
                  ELSE LogDelete(logFile, logThreads[t].key)
    /\ SetThread(t, [logThreads[t] EXCEPT !.pc = "data"])
    /\ UNCHANGED <<lsmVars, lockVars, hashVars, logExists, logTail, logTemps, mu, effective, writes, tableVars, lastRead>>

\* Write and Delete: file.Write("\n") and file.Sync(); the call has taken effect
LogWriteNewline(t) ==
    /\ logThreads[t].pc = "data"
    /\ effective' = IF logThreads[t].op = "Write"
                    THEN LogWrite(effective, logThreads[t].key, logThreads[t].value)
                    ELSE LogDelete(effective, logThreads[t].key)
    /\ SetThread(t, [logThreads[t] EXCEPT !.pc = "unlock"])
    /\ UNCHANGED <<lsmVars, lockVars, hashVars, logFile, logExists, logTail, logTemps, mu, writes, tableVars, lastRead>>

\* compact: the scan loop builds latestEntries from the file as it is now
LogCompactScan(t) ==
    /\ logThreads[t].pc = "locked"
    /\ logThreads[t].op = "Compact"
    /\ IF ScanFailed(logFile)
       THEN SetThread(t, [logThreads[t] EXCEPT !.pc = "unlock"])
       ELSE SetThread(t, [logThreads[t] EXCEPT
                            !.pc = "scanned",
                            !.local = LatestEntries(logFile, Len(logFile))])
    /\ UNCHANGED <<lsmVars, lockVars, hashVars, logFile, logExists, logTail, logTemps, mu, effective, writes, tableVars, lastRead>>

\* compact: the temporary file is written from latestEntries and renamed
\* over the log file; the call has taken effect
LogCompactRename(t) ==
    /\ logThreads[t].pc = "scanned"
    /\ LET latest == logThreads[t].local
           live   == {k \in DOMAIN latest : ~latest[k].deleted}
       IN  \E order \in Orders(live) :
              /\ logFile' = [i \in 1..Len(order) |-> latest[order[i]]]
              /\ effective' = compactLog(effective, order)
    /\ SetThread(t, [logThreads[t] EXCEPT !.pc = "unlock"])
    /\ UNCHANGED <<lsmVars, lockVars, hashVars, logExists, logTail, logTemps, mu, writes, tableVars, lastRead>>

\* Read: the scan loop and the result
LogReadScan(t) ==
    /\ logThreads[t].pc = "locked"
    /\ logThreads[t].op = "Read"
    /\ SetThread(t, [logThreads[t] EXCEPT !.pc = "unlock",
                                         !.ret = LogRead(logFile, logThreads[t].key)])
    /\ UNCHANGED <<lsmVars, lockVars, hashVars, logFile, logExists, logTail, logTemps, mu, effective, writes, tableVars, lastRead>>

\* the deferred l.mu.Unlock() or l.mu.RUnlock(); the call returns
LogUnlock(t) ==
    /\ logThreads[t].pc = "unlock"
    /\ mu' = [writer  |-> IF mu.writer = t THEN "none" ELSE mu.writer,
              readers |-> mu.readers \ {t}]
    /\ SetThread(t, [logThreads[t] EXCEPT !.pc = "done"])
    /\ UNCHANGED <<lsmVars, lockVars, hashVars, logFile, logExists, logTail, logTemps, effective, writes, tableVars, lastRead>>

InitLogThreads ==
    /\ logFile = UsedLog
    /\ logExists = TRUE
    /\ logTail = <<>>
    /\ logTemps = <<>>
    /\ mu = Unlocked
    /\ logThreads = [t \in Threads |-> IdleThread]
    /\ effective = UsedLog
    /\ writes = 0
    /\ LsmIdle
    /\ LockIdle
    /\ TableIdle
    /\ lastRead = NoRead
    /\ HashIdle

NextLogThreads ==
    \/ \E t \in Threads : LogCall(t)
    \/ \E t \in Threads : LogLock(t)
    \/ \E t \in Threads : LogRLock(t)
    \/ \E t \in Threads : LogWriteData(t)
    \/ \E t \in Threads : LogWriteNewline(t)
    \/ \E t \in Threads : LogCompactScan(t)
    \/ \E t \in Threads : LogCompactRename(t)
    \/ \E t \in Threads : LogReadScan(t)
    \/ \E t \in Threads : LogUnlock(t)

SpecLogThreads == InitLogThreads /\ [][NextLogThreads]_vars

\* a thread is between its lock and its unlock
InCritical(t) == logThreads[t].pc \in {"locked", "data", "scanned", "unlock"}

\* C13: the calls of several threads take effect one at a time in the order
\* of their critical sections: whenever no writer holds the mutex the file
\* is the file of that sequential order, so no Write or Delete is lost by a
\* rename; a Read never scans while a line lacks its newline, and returns
\* what the sequential order gives.
C13_LogLinearizable ==
    /\ [](mu.writer = "none" => logFile = effective)
    /\ [](\A t, u \in Threads :
            (logThreads[t].op = "Read" /\ InCritical(t)) => logThreads[u].pc # "data")
    /\ [][\A t \in Threads :
            LogReadScan(t) => logThreads'[t].ret = LogRead(effective, logThreads[t].key)]_vars

\* a Write completed while a Compact was between its lock request and its
\* return, a Read returned, and the Compact has renamed
C13_Witness ==
    \E t, u, r \in Threads :
        /\ logThreads[t].op = "Compact" /\ logThreads[t].pc = "done"
        /\ logThreads[u].op = "Write" /\ logThreads[u].pc = "done"
        /\ logThreads[r].op = "Read" /\ logThreads[r].pc = "done"
        /\ logFile = effective
        /\ \E i \in DOMAIN logFile : logFile[i].value = logThreads[u].value


\* ------------------------------------------------------------------------
\* Hash engine: several threads on one instance (src/hashkv/hashkv.go).
\* HashKV has no mutex; each thread makes one call, a step is one access to
\* the file or to the index map.
\* ------------------------------------------------------------------------

\* the calls the threads choose from; every record they write is 47 bytes
\* long, so a write at the offset of a record replaces exactly that record
HashCalls ==
    {[op |-> "Write",  key |-> "a",   value |-> Repeat("v", 1)],
     [op |-> "Write",  key |-> "a",   value |-> Repeat("w", 1)],
     [op |-> "Write",  key |-> "b",   value |-> Repeat("w", 1)],
     [op |-> "Delete", key |-> "key", value |-> EmptyString],
     [op |-> "Read",   key |-> "a",   value |-> EmptyString]}

\* the record a Write or Delete call marshals
CallRecord(c) ==
    IF c.op = "Write" THEN HashKVEntry(c.key, c.value, FALSE)
    ELSE HashKVEntry(c.key, EmptyString, TRUE)

\* binary.Write of the length and the record through a descriptor positioned
\* at the offset
WriteAt(file, offset, rec) ==
    IF offset = FileSize(file) THEN Append(file, rec)
    ELSE [file EXCEPT ![CHOOSE i \in 1..Len(file) : RecordOffset(file, i) = offset] = rec]

SetHashThread(t, rec) == hashThreads' = [hashThreads EXCEPT ![t] = rec]

\* a thread calls Write, Delete or Read
HashCall(t) ==
    /\ hashThreads[t].pc = "idle"
    /\ \E c \in HashCalls :
          SetHashThread(t, [hashThreads[t] EXCEPT
                              !.pc = IF c.op = "Read" THEN "lookup" ELSE "seek",
                              !.op = c.op, !.key = c.key, !.value = c.value])
    /\ UNCHANGED <<lsmVars, lockVars, logVars, hashFile, hashTail, byteOffsetIndex, effective, writes, tableVars, lastRead>>

\* Write and Delete: os.OpenFile and file.Seek(0, io.SeekEnd)
HashSeek(t) ==
    /\ hashThreads[t].pc = "seek"
    /\ SetHashThread(t, [hashThreads[t] EXCEPT !.pc = "write", !.local = FileSize(hashFile)])
    /\ UNCHANGED <<lsmVars, lockVars, logVars, hashFile, hashTail, byteOffsetIndex, effective, writes, tableVars, lastRead>>

\* Write and Delete: the length and the record are written where the
\* descriptor stands, then file.Sync()
HashWriteRecord(t) ==
    /\ hashThreads[t].pc = "write"
    /\ hashFile' = WriteAt(hashFile, hashThreads[t].local, CallRecord(hashThreads[t]))
    /\ SetHashThread(t, [hashThreads[t] EXCEPT !.pc = "index"])
    /\ UNCHANGED <<lsmVars, lockVars, logVars, hashTail, byteOffsetIndex, effective, writes, tableVars, lastRead>>

\* Write: h.byteOffsetIndex[key] = offset; Delete: delete(h.byteOffsetIndex, key)
HashIndex(t) ==
    /\ hashThreads[t].pc = "index"
    /\ byteOffsetIndex' =
          IF hashThreads[t].op = "Write"
          THEN (hashThreads[t].key :> hashThreads[t].local) @@ byteOffsetIndex
          ELSE [k \in (DOMAIN byteOffsetIndex) \ {hashThreads[t].key} |-> byteOffsetIndex[k]]
    /\ SetHashThread(t, [hashThreads[t] EXCEPT !.pc = "done"])
    /\ UNCHANGED <<lsmVars, lockVars, logVars, hashFile, hashTail, effective, writes, tableVars, lastRead>>

\* Read: offset, ok := h.byteOffsetIndex[key]
HashLookup(t) ==
    /\ hashThreads[t].pc = "lookup"
    /\ IF hashThreads[t].key \in DOMAIN byteOffsetIndex
       THEN SetHashThread(t, [hashThreads[t] EXCEPT
                                !.pc = "fetch",
                                !.local = byteOffsetIndex[hashThreads[t].key]])
       ELSE SetHashThread(t, [hashThreads[t] EXCEPT
                                !.pc = "done",
                                !.ret = [value |-> EmptyString, err |-> "key not found"]])
    /\ UNCHANGED <<lsmVars, lockVars, logVars, hashFile, hashTail, byteOffsetIndex, effective, writes, tableVars, lastRead>>

\* Read: seek to the offset, read the record there and decode it
HashFetch(t) ==
    /\ hashThreads[t].pc = "fetch"
    /\ SetHashThread(t, [hashThreads[t] EXCEPT
                           !.pc = "done",
                           !.ret = HashKVRead([file  |-> hashFile,
                                               index |-> (hashThreads[t].key :> hashThreads[t].local)],
                                              hashThreads[t].key)])
    /\ UNCHANGED <<lsmVars, lockVars, logVars, hashFile, hashTail, byteOffsetIndex, effective, writes, tableVars, lastRead>>

\* two threads stand at an access to the index map, one of them a write: a
\* data race, which the Go runtime may answer with
\* "fatal error: concurrent map writes" and end the process
HashFatal ==
    /\ \E t, u \in Threads :
          /\ t # u
          /\ hashThreads[t].pc = "index"
          /\ hashThreads[u].pc \in {"index", "lookup"}
    /\ hashThreads' = [t \in Threads |-> [hashThreads[t] EXCEPT !.pc = "fatal"]]
    /\ UNCHANGED <<lsmVars, lockVars, logVars, hashFile, hashTail, byteOffsetIndex, effective, writes, tableVars, lastRead>>

InitHashThreads ==
    /\ HashIdle
    /\ LsmIdle
    /\ LockIdle
    /\ TableIdle
    /\ lastRead = NoRead
    /\ LogIdle
    /\ effective = <<>>
    /\ writes = 0

NextHashThreads ==
    \/ \E t \in Threads : HashCall(t)
    \/ \E t \in Threads : HashSeek(t)
    \/ \E t \in Threads : HashWriteRecord(t)
    \/ \E t \in Threads : HashIndex(t)
    \/ \E t \in Threads : HashLookup(t)
    \/ \E t \in Threads : HashFetch(t)
    \/ HashFatal

SpecHashThreads == InitHashThreads /\ [][NextHashThreads]_vars

\* the threads whose Write or Delete has returned
Returned(op) == {t \in Threads : hashThreads[t].op = op /\ hashThreads[t].pc = "done"}

\* C14: once every call has returned, each Write and Delete has its own
\* record in the file and Read of a written key returns a value that some
\* Write gave that key.
C14_ConcurrentWritesKeepTheirRecords ==
    (\A t \in Threads : hashThreads[t].pc = "done") =>
        /\ Len(hashFile) = Cardinality(Returned("Write") \cup Returned("Delete"))
        /\ \A k \in {"a", "b"} :
              (\E t \in Returned("Write") : hashThreads[t].key = k)
              => HashKVRead(hashkv, k) \in
                    {[value |-> hashThreads[t].value, err |-> ""] :
                        t \in {u \in Returned("Write") : hashThreads[u].key = k}}


\* ------------------------------------------------------------------------
\* Log engine: files that hold current, legacy and malformed lines
\* ------------------------------------------------------------------------

\* the lines such a file is made of
FileLines ==
    {CurrentLine("a", Repeat("v", 1), FALSE),
     CurrentLine("a", EmptyString, TRUE),
     CurrentLine("b", Repeat("w", 2), FALSE),
     LegacyLine("a", Repeat("u", 1)),
     LegacyLine("key", Repeat("b", 1)),
     LegacyLine("value", Repeat("u", 1)),
     LegacyLine("deleted", Repeat("u", 1)),
     MalformedLine(Repeat("#", 5))}

\* the keys those lines mention
FileKeys == {"a", "b", "key", "value", "deleted"}

\* the files of at most MaxLines such lines
Files == UNION {[1..n -> FileLines] : n \in 0..MaxLines}

\* NewLog on an existing file below the compaction threshold
InitLogFiles ==
    /\ logFile \in Files
    /\ logExists = TRUE
    /\ logTail = <<>>
    /\ logTemps = <<>>
    /\ mu = Unlocked
    /\ logThreads = [t \in Threads |-> IdleThread]
    /\ effective = <<>>
    /\ writes = 0
    /\ LsmIdle
    /\ LockIdle
    /\ TableIdle
    /\ lastRead = NoRead
    /\ HashIdle

NextLogFiles ==
    \/ DoLogRead
    \/ DoLogCompact

SpecLogFiles == InitLogFiles /\ [][NextLogFiles]_vars

\* a line of either record shape that carries the key
Mentions(line, k) == line.shape \in {"current", "legacy"} /\ line.key = k

\* the position of the last line of the file that mentions the key, 0 if none
LastLine(file, k) ==
    IF \E i \in DOMAIN file : Mentions(file[i], k)
    THEN CHOOSE i \in DOMAIN file :
            /\ Mentions(file[i], k)
            /\ \A j \in DOMAIN file : Mentions(file[j], k) => j <= i
    ELSE 0

\* what the record rules make Read return for the key
Outcome(file, k) ==
    LET i == LastLine(file, k)
    IN  IF i = 0 THEN [value |-> EmptyString, err |-> "key not found"]
        ELSE IF file[i].deleted THEN [value |-> EmptyString, err |-> "key has been deleted"]
        ELSE [value |-> file[i].value, err |-> ""]

\* C15: whichever order the map is visited in, the file compact leaves has
\* only current-shape records that are no tombstones, exactly one for each
\* key whose last line is no tombstone, with the value of that line, none
\* for any other key, and every key readable before reads the same.
C15_CompactKeepsLatestRecords ==
    \A order \in Orders(Survivors(logFile)) :
        LET new == compactLog(logFile, order)
        IN  /\ \A i \in DOMAIN new : new[i].shape = "current" /\ ~new[i].deleted
            /\ \A k \in FileKeys :
                  Cardinality({i \in DOMAIN new : new[i].key = k})
                      = IF Outcome(logFile, k).err = "" THEN 1 ELSE 0
            /\ \A i \in DOMAIN new : new[i].value = Outcome(logFile, new[i].key).value
            /\ \A k \in FileKeys :
                  LogRead(logFile, k).err = "" => LogRead(new, k) = LogRead(logFile, k)

\* C16: in a file that mixes legacy and current lines, Read resolves every
\* key by the last line that mentions it, whatever its shape, and so does
\* the file compact leaves.
C16_LastLineWinsAcrossShapes ==
    \A k \in FileKeys :
        /\ LogRead(logFile, k) = Outcome(logFile, k)
        /\ \A order \in Orders(Survivors(logFile)) :
              LogRead(compactLog(logFile, order), k).value = Outcome(logFile, k).value
              /\ (LogRead(compactLog(logFile, order), k).err = "")
                     = (Outcome(logFile, k).err = "")


\* a line the engine can decode as a record: not the empty-key line, which
\* Read and compact pass over like a malformed one
Parsable(line) == IsCurrentEntry(line) \/ IsOldEntry(line)

\* C17: Read of a key reports not-found exactly when no parsable record of
\* the file has the key, deleted exactly when the last such record is a
\* tombstone, and otherwise returns the value of the last such record; the
\* lines that are no records make no difference and do not abort the read.
C17_ReadOutcomeByLastRecord ==
    \A k \in LogKeys \ {""} :
        LET r    == LogRead(logFile, k)
            last == LastLine(logFile, k)
        IN  /\ (r.err = "key not found") = (last = 0)
            /\ (r.err = "key has been deleted") = (last # 0 /\ logFile[last].deleted)
            /\ (last # 0 /\ ~logFile[last].deleted)
                  => r = [value |-> logFile[last].value, err |-> ""]
            /\ LogRead(SelectSeq(logFile, Parsable), k) = r


\* ------------------------------------------------------------------------
\* Log engine: NewLog on the log file (src/log/log.go)
\* ------------------------------------------------------------------------

\* fileInfo.Size(): every line and its newline
RECURSIVE LogFileSize(_)
LogFileSize(file) ==
    IF file = <<>> THEN 0 ELSE LineLen(Head(file)) + 1 + LogFileSize(Tail(file))

\* the longest value whose record line the scanner still reads: with its
\* newline the line is MaxScanTokenSize bytes
FullLineValue == Repeat("y", MaxScanTokenSize - 39)

\* a file of n such lines, for the keys a and b in turn
FullLines(n) ==
    [i \in 1..n |-> CurrentLine(IF i % 2 = 1 THEN "a" ELSE "b", FullLineValue, FALSE)]

\* the files NewLog finds: none, an empty one, one of exactly
\* LogCompactionThreshold bytes and one a line short of it
FoundFiles == {<<>>, FullLines(16), FullLines(15)}

\* the file NewLog leaves and whether it returns an error, when compact
\* visits its map in the given order
NewLogFile(exists, file, order) ==
    IF ~exists THEN [file |-> <<>>, err |-> FALSE]
    ELSE IF LogFileSize(file) >= LogCompactionThreshold
    THEN [file |-> compactLog(file, order), err |-> ScanFailed(file)]
    ELSE [file |-> file, err |-> FALSE]

\* the record the latest-writer-wins rule gives a key of the file
EffectiveOf(file, k) ==
    IF LastLine(file, k) = 0 THEN NeverWritten
    ELSE [written |-> TRUE, deleted |-> file[LastLine(file, k)].deleted,
          value |-> file[LastLine(file, k)].value]

InitLogOpen ==
    /\ logExists \in BOOLEAN
    /\ logFile \in (IF logExists THEN FoundFiles ELSE {<<>>})
    /\ logTail = <<>>
    /\ logTemps = <<>>
    /\ mu = Unlocked
    /\ logThreads = [t \in Threads |-> IdleThread]
    /\ effective = [k \in LogKeys |-> EffectiveOf(logFile, k)]
    /\ writes = 0
    /\ LsmIdle
    /\ LockIdle
    /\ TableIdle
    /\ lastRead = NoRead
    /\ HashIdle

\* NewLog: the file is created, compacted or left as it is
DoLogOpen ==
    \E order \in Orders(Survivors(logFile)) :
        /\ logFile' = NewLogFile(logExists, logFile, order).file
        /\ logExists' = TRUE
        /\ UNCHANGED <<logTail, logTemps, mu, logThreads, lsmVars, lockVars, hashVars, effective, writes, tableVars, lastRead>>

NextLogOpen ==
    \/ DoLogOpen
    \/ DoLogWrite
    \/ DoLogDelete
    \/ DoLogRead

SpecLogOpen == InitLogOpen /\ [][NextLogOpen]_vars

\* C18: NewLog succeeds; it creates a missing file empty, leaves a file
\* below LogCompactionThreshold as it is and compacts a file of that size or
\* more to one live record per key; Read after it gives every key the value
\* of its last record.
C18_OpenCompactsFromThreshold ==
    \A order \in Orders(Survivors(logFile)) :
        LET r    == NewLogFile(logExists, logFile, order)
            size == LogFileSize(logFile)
        IN  /\ ~r.err
            /\ ~logExists => r.file = <<>>
            /\ (logExists /\ size < LogCompactionThreshold) => r.file = logFile
            /\ (logExists /\ size >= LogCompactionThreshold) =>
                  /\ \A i, j \in DOMAIN r.file : r.file[i].key = r.file[j].key => i = j
                  /\ \A i \in DOMAIN r.file : ~r.file[i].deleted
            /\ \A k \in LogKeys \ {""} :
                  /\ LogRead(r.file, k).value = Outcome(logFile, k).value
                  /\ (LogRead(r.file, k).err = "") = (Outcome(logFile, k).err = "")


\* ------------------------------------------------------------------------
\* LSM engine: what an explicit Compact leaves
\* ------------------------------------------------------------------------

\* the newest record of a key in a stack (newest table first) from position i
RECURSIVE NewestRecord(_, _, _, _)
NewestRecord(tables, dir, i, k) ==
    IF i > Len(tables) THEN [Key |-> k, Value |-> EmptyString, Deleted |-> TRUE]
    ELSE LET data == dir[tables[i].FilePath].data
             at   == {j \in 1..Len(data) : data[j].Key = k}
         IN  IF at # {} THEN data[CHOOSE j \in at : TRUE]
             ELSE NewestRecord(tables, dir, i + 1, k)

\* the keys of a stack whose newest record is not a tombstone
LiveKeys(tables, dir) ==
    {k \in LsmKeys : ~NewestRecord(tables, dir, 1, k).Deleted}

\* the stack Compact works on: the memtable is flushed first
BeforeCompact == IF ~IsEmpty(memtable) THEN flushMemtable(lsm) ELSE lsm

\* C19: an explicit Compact on a stack of two or more tables leaves exactly
\* one table holding precisely the keys whose newest record is not a
\* tombstone, each with its newest value, or no table when there is no such
\* key; the files of the previous tables are gone; and Read of every key
\* answers as it did before the Compact.
C19_CompactKeepsNewestLiveRecords ==
    [][(/\ LsmCompact
        /\ Len(sstables) >= 2)
       => LET live == LiveKeys(BeforeCompact.sstables, BeforeCompact.dataDir)
          IN  /\ IF live = {} THEN sstables' = <<>>
                 ELSE /\ Len(sstables') = 1
                      /\ LET data == dataDir'[sstables'[1].FilePath].data
                         IN  /\ {data[j].Key : j \in 1..Len(data)} = live
                             /\ Len(data) = Cardinality(live)
                             /\ \A j \in 1..Len(data) :
                                   data[j] = NewestRecord(BeforeCompact.sstables,
                                                          BeforeCompact.dataDir,
                                                          1, data[j].Key)
              /\ DOMAIN dataDir' = {sstables'[i].FilePath : i \in 1..Len(sstables')}
              /\ \A k \in RealKeys : SSTableDBRead(lsm', k) = SSTableDBRead(lsm, k)
      ]_vars


\* ------------------------------------------------------------------------
\* LSM engine: a process that stops inside compact, between the rename of
\* the compacted table and the removal of the old ones
\* ------------------------------------------------------------------------

\* compact up to and including WriteSSTable(compactedPath, compactedEntries):
\* the instance and the directory at the moment the process stops
compactUntilRemove(db) ==
    LET allEntries       == CollectEntries(db, Len(db.sstables), <<>>)
        live             == {k \in DOMAIN allEntries : ~allEntries[k].Deleted}
        compactedEntries == SortEntries(MapValues([k \in live |-> allEntries[k]]))
        compactedPath    == db.nextSSTableID
        file             == WriteSSTable(compactedEntries)
    IN  [db EXCEPT !.nextSSTableID = db.nextSSTableID + 1,
                   !.dataDir       = (compactedPath :> file) @@ db.dataDir]

\* Compact stops after the compacted table is in place.  The variables keep
\* the stopped instance as it was when compact began (memtable flushed, the
\* old stack), next to the directory it leaves.
LsmCompactCrash ==
    /\ phase # "halted"
    /\ nextSSTableID + 1 < MaxTableId
    /\ Len(BeforeCompact.sstables) >= 2
    /\ LiveKeys(BeforeCompact.sstables, BeforeCompact.dataDir) # {}
    /\ SetDB(compactUntilRemove(BeforeCompact))
    /\ phase' = "halted"
    /\ UNCHANGED <<effective, crashed, dbMu, dbThreads, writes, lockVars, logVars, hashVars, tableVars, lastRead>>

\* the next NewSSTableDB on the directory the stopped process left
LsmRecover ==
    /\ phase = "halted"
    /\ SetDB(NewSSTableDB(dataDir))
    /\ phase' = "resumed"
    /\ UNCHANGED <<effective, crashed, dbMu, dbThreads, writes, lockVars, logVars, hashVars, tableVars, lastRead>>

NextLsmCrash ==
    \/ phase # "halted" /\ NextLSM
    \/ LsmCompactCrash
    \/ LsmRecover

SpecLsmCrash == InitLSM /\ [][NextLsmCrash]_vars

\* the ids of a stack in stack order
StackIds(tables) == [i \in 1..Len(tables) |-> tables[i].FilePath]

TableKeyList == SubSeq(KeyOrder, 5, 4 + MaxTableKeys)

TableKeys == {TableKeyList[i] : i \in 1..Len(TableKeyList)}

\* lengths around the index blocks of IndexInterval records
TableEnds ==
    {0, 1, 2, IndexInterval - 1, IndexInterval, IndexInterval + 1, IndexInterval + 2,
     2 * IndexInterval - 1, 2 * IndexInterval, 2 * IndexInterval + 1,
     2 * IndexInterval + 2, MaxTableKeys}

\* the i-th offered key as the memtable hands it to WriteSSTable: a value
\* of 0, 1 or 2 bytes, or a tombstone
TableEntry(i, dead) ==
    IF i = dead THEN Entry(TableKeyList[i], EmptyString, TRUE)
    ELSE Entry(TableKeyList[i], Repeat("v", i % 3), FALSE)

\* the entries of keys lo..hi without the key at hole, ascending or descending
TableEntries(lo, hi, hole, dead, ascending) ==
    LET picked == SelectSeq([i \in 1..hi |-> i], LAMBDA i : i >= lo /\ i # hole)
        n      == Len(picked)
    IN  [j \in 1..n |-> TableEntry(IF ascending THEN picked[j] ELSE picked[n + 1 - j], dead)]

\* json.Unmarshal calls of the scan loop of Get from record i at currentOffset
RECURSIVE ScanReads(_, _, _, _, _)
ScanReads(data, i, currentOffset, endOffset, key) ==
    IF currentOffset >= endOffset \/ i > Len(data) THEN 0
    ELSE IF data[i].Key = key \/ KeyLess(key, data[i].Key) THEN 1
    ELSE 1 + ScanReads(data, i + 1,
                       currentOffset + LengthPrefixBytes + EntryJSONLen(data[i]),
                       endOffset, key)

\* the data records one Get decodes
GetReads(sst, file, key) ==
    LET start == StartOffset(sst, key)
        first == CHOOSE i \in 1..(Len(file.data) + 1) : OffsetOf(file.data, i) = start
    IN  ScanReads(file.data, first, start, EndOffset(sst, key), key)

InitTable ==
    /\ TableIdle
    /\ lastRead = NoRead
    /\ LsmIdle
    /\ LockIdle
    /\ LogIdle
    /\ HashIdle
    /\ effective = <<>>
    /\ writes = 0

DoWriteSSTable ==
    /\ tableFile = NoFile
    /\ \E lo \in {1, 2}, hi \in TableEnds, hole \in {0, 9, IndexInterval + 1},
          dead \in {0, 3, IndexInterval + 2}, ascending \in BOOLEAN :
          tableFile' = WriteSSTable(TableEntries(lo, hi, hole, dead, ascending))
    /\ UNCHANGED <<table, lastGet, tmpFiles, tableWrite, lsmVars, lockVars, logVars, hashVars, lastRead, effective, writes>>

DoOpenSSTable ==
    /\ tableFile # NoFile
    /\ table.FilePath = -1
    /\ table' = OpenSSTable(0, tableFile)
    /\ UNCHANGED <<tableFile, lastGet, tmpFiles, tableWrite, lsmVars, lockVars, logVars, hashVars, lastRead, effective, writes>>

\* one Get on the table just opened
DoGet ==
    /\ table.FilePath # -1
    /\ ~lastGet.done
    /\ \E key \in TableKeys :
          lastGet' = [key    |-> key,
                      value  |-> SSTableGet(table, tableFile, key).value,
                      exists |-> SSTableGet(table, tableFile, key).exists,
                      reads  |-> GetReads(table, tableFile, key),
                      done   |-> TRUE]
    /\ UNCHANGED <<tableFile, table, tmpFiles, tableWrite, lsmVars, lockVars, logVars, hashVars, lastRead, effective, writes>>

NextTable ==
    \/ DoWriteSSTable
    \/ DoOpenSSTable
    \/ DoGet

SpecTable == InitTable /\ [][NextTable]_vars

\* the records of the written table that carry a key
RecordsOf(key) == {j \in 1..Len(tableFile.data) : tableFile.data[j].Key = key}

\* C21: after WriteSSTable and OpenSSTable, Get of a written key returns its
\* written value with exists = true, and Get of a key that was not written
\* returns exists = false, wherever the key sorts among the written ones.
C21_TableRoundTrip ==
    lastGet.done =>
        IF RecordsOf(lastGet.key) = {}
        THEN ~lastGet.exists
        ELSE /\ lastGet.exists
             /\ \A j \in RecordsOf(lastGet.key) : lastGet.value = tableFile.data[j].Value


\* a Get that found a key in the third index block, away from an index entry
C21_Witness ==
    /\ lastGet.done
    /\ Len(tableFile.data) > 2 * IndexInterval
    /\ lastGet.exists
    /\ lastGet.value # EmptyString
    /\ lastGet.key \notin {table.index[i].Key : i \in 1..Len(table.index)}
    /\ KeyLess(table.index[3].Key, lastGet.key)

\* the records of the written table that are tombstones
Tombstones == {j \in 1..Len(tableFile.data) : tableFile.data[j].Deleted}

\* C22: in a table that holds a tombstone for a key, Get of that key returns
\* exists = true with the empty value, and Get of every other key of the
\* table still returns that key's value.
C22_TableTombstoneIsObservable ==
    (lastGet.done /\ Tombstones # {}) =>
        /\ RecordsOf(lastGet.key) \cap Tombstones # {}
              => lastGet.exists /\ lastGet.value = EmptyString
        /\ \A j \in RecordsOf(lastGet.key) \ Tombstones :
              lastGet.exists /\ lastGet.value = tableFile.data[j].Value

\* a Get of the tombstoned key in a table of more than one index block
C22_Witness ==
    /\ lastGet.done
    /\ RecordsOf(lastGet.key) \cap Tombstones # {}
    /\ lastGet.exists
    /\ Len(table.index) > 1

\* C23: one Get decodes at most IndexInterval data records, whatever the
\* table and whether or not the key is in it.
C23_GetDecodesAtMostOneBlock == lastGet.done => lastGet.reads <= IndexInterval


\* ------------------------------------------------------------------------
\* LSM engine: what Flush leaves
\* ------------------------------------------------------------------------

\* C24: Flush on an empty memtable changes nothing.  Flush on a non-empty
\* memtable creates exactly one table file holding every memtable entry,
\* tombstones included, puts that table first in the stack and leaves the
\* memtable empty with size 0; a key readable before the Flush is readable
\* with the same value after it.
C24_FlushMovesMemtableToNewestTable ==
    [][LsmFlush =>
        IF IsEmpty(memtable)
        THEN UNCHANGED <<memtable, sstables, nextSSTableID, dataDir>>
        ELSE /\ DOMAIN dataDir' = DOMAIN dataDir \cup {nextSSTableID}
             /\ nextSSTableID \notin DOMAIN dataDir
             /\ \A p \in DOMAIN dataDir : dataDir'[p] = dataDir[p]
             /\ dataDir'[nextSSTableID].data = GetSortedEntries(memtable)
             /\ Len(sstables') = Len(sstables) + 1
             /\ sstables'[1].FilePath = nextSSTableID
             /\ Tail(sstables') = sstables
             /\ IsEmpty(memtable') /\ Size(memtable') = 0
             /\ \A k \in RealKeys :
                   SSTableDBRead(lsm, k).ok => SSTableDBRead(lsm', k) = SSTableDBRead(lsm, k)
      ]_vars


\* ------------------------------------------------------------------------
\* Read in the three engines, with its answer kept: an instance of one
\* engine is brought to some state by its other operations and is then read
\* ------------------------------------------------------------------------

Engines == {"lsm", "log", "hash"}

\* the answer of SSTableDB.Read as (value, err)
LsmAnswer(db, key) ==
    [value |-> SSTableDBRead(db, key).value,
     err   |-> IF SSTableDBRead(db, key).ok THEN "" ELSE "key not found"]

\* what Read(key) of the engine in use answers in the current state
ReadAnswer(engine, key) ==
    CASE engine = "lsm"  -> LsmAnswer(lsm, key)
      [] engine = "log"  -> LogRead(logFile, key)
      [] engine = "hash" -> HashKVRead(hashkv, key)
      [] OTHER           -> NoRead.ret

InitReads ==
    /\ LockIdle
    /\ TableIdle
    /\ LogIdle
    /\ HashIdle
    /\ \/ /\ lastRead = [NoRead EXCEPT !.engine = "lsm"]
          /\ InitLsmEngine
       \/ /\ \E e \in {"log", "hash"} : lastRead = [NoRead EXCEPT !.engine = e]
          /\ LsmIdle
          /\ effective = [k \in LogKeys \cup HashKeys |-> NeverWritten]
          /\ writes = 0

ReadLsm ==
    /\ lastRead.engine = "lsm"
    /\ \E k \in LsmKeys :
          /\ SetDB(SSTableDBAfterRead(lsm, k))
          /\ lastRead' = [engine |-> "lsm", key |-> k, ret |-> LsmAnswer(lsm, k), done |-> TRUE]
    /\ UNCHANGED <<phase, crashed, dbMu, dbThreads, lockVars, logVars, hashVars, tableVars, effective, writes>>

ReadLog ==
    /\ lastRead.engine = "log"
    /\ \E k \in LogKeys :
          /\ logFile' = LogAfterRead(logFile, k)
          /\ lastRead' = [engine |-> "log", key |-> k, ret |-> LogRead(logFile, k), done |-> TRUE]
    /\ UNCHANGED <<logExists, logTail, logTemps, mu, logThreads, lsmVars, lockVars, hashVars, tableVars,
                   effective, writes>>

ReadHash ==
    /\ lastRead.engine = "hash"
    /\ \E k \in HashKeys :
          /\ SetHashKV(HashKVAfterRead(hashkv, k))
          /\ lastRead' = [engine |-> "hash", key |-> k, ret |-> HashKVRead(hashkv, k), done |-> TRUE]
    /\ UNCHANGED <<lsmVars, lockVars, logVars, tableVars, effective, writes>>

\* the other operations run before the first Read
NextReads ==
    \/ /\ lastRead.engine = "lsm"
       /\ ~lastRead.done
       /\ (LsmWrite \/ LsmDelete \/ LsmFlush \/ LsmCompact)
    \/ /\ lastRead.engine = "log"
       /\ ~lastRead.done
       /\ (DoLogWrite \/ DoLogDelete \/ DoLogCompact)
    \/ /\ lastRead.engine = "hash"
       /\ ~lastRead.done
       /\ (DoHashWrite \/ DoHashDelete \/ DoHashOpen)
    \/ ReadLsm
    \/ ReadLog
    \/ ReadHash

SpecReads == InitReads /\ [][NextReads]_vars

\* what the Read just answered would answer if it were made again now
AnswerAgain == ReadAnswer(lastRead.engine, lastRead.key)

IndexNames == HashKeys \cup MemberNames

\* the numbers of the records of the file that carry a key
HashRecordsOf(key) == {i \in 1..Len(hashFile) : hashFile[i].key = key}

\* the last of them
LastRecordOf(key) == CHOOSE i \in HashRecordsOf(key) : \A j \in HashRecordsOf(key) : j <= i

\* C26: after every Write, Delete and open, a key is in the index exactly
\* when the last record of that key in the file is not a tombstone, and the
\* index then holds the offset of the length prefix of that record.
C26_IndexPointsAtLastLiveRecord ==
    \A k \in IndexNames :
        /\ k \in DOMAIN byteOffsetIndex
              <=> (HashRecordsOf(k) # {} /\ ~hashFile[LastRecordOf(k)].deleted)
        /\ k \in DOMAIN byteOffsetIndex
              => /\ HashRecordsOf(k) # {}
                 /\ byteOffsetIndex[k] = RecordOffset(hashFile, LastRecordOf(k))


\* ------------------------------------------------------------------------
\* LSM engine: the tables of the stack
\* ------------------------------------------------------------------------

\* the data records of the table at position i of the stack
StackData(i) == dataDir[sstables[i].FilePath].data

\* C27: every table of the stack, flushed or compacted, holds records with
\* pairwise distinct keys in strictly increasing key order.
C27_StackTablesStrictlySorted ==
    \A i \in 1..Len(sstables) :
        \A j \in 1..(Len(StackData(i)) - 1) :
            KeyLess(StackData(i)[j].Key, StackData(i)[j + 1].Key)

\* a stack of one table of three keys that replaced the earlier files
C27_Witness ==
    /\ Len(sstables) = 1
    /\ sstables[1].FilePath > 1
    /\ DOMAIN dataDir = {sstables[1].FilePath}
    /\ Len(StackData(1)) = 3


\* ------------------------------------------------------------------------
\* LSM engine: the files of the data directory while tables are written.
\* WriteSSTable is followed step by step (create the .tmp file, write the
\* data records, write index and footer, sync and close, rename), and the
\* process may stop or the write may fail between any two steps.
\* ------------------------------------------------------------------------

\* the first id that sstable_%06d.sst writes with its last six-digit names
HighBase == 10 ^ TableIdWidth - 2

\* the directory an earlier instance leaves after
\*   Write("a","v"); Flush; Write("b","v"); Flush; Close
TwoTableDir ==
    SSTableDBClose(SSTableDBFlush(SSTableDBWrite(
        SSTableDBFlush(SSTableDBWrite(NewSSTableDB(<<>>), "a", Repeat("v", 1))),
        "b", Repeat("v", 1)))).dataDir

\* the same two tables under the names sstable_999998.sst and sstable_999999.sst
HighDir == [p \in {HighBase, HighBase + 1} |-> TwoTableDir[p - HighBase]]

\* the used directory with a copy of its oldest table as sstable_copy.sst
CopyDir == (CopyPath :> UsedDir[0]) @@ UsedDir

FoundDirs == {<<>>, UsedDir, HighDir, CopyDir}

\* os.Create(tempPath): an empty file
CreatedFile == NoFile

\* a file that holds all three sections of a table
Complete(file) == file = WriteSSTable(file.data)

\* the model begins MaxWrites writes, deletes, flushes and compactions at most
OperationsLeft == writes < MaxWrites

\* a WriteSSTable that renamed the file before its last section was written
RenamedWhileWriting(w) == w.pc \in {"created", "written"}

\* the file is complete, synced and closed: WriteSSTable may rename it
SyncedAndClosed(w) == w.pc = "written"

InitLsmFiles ==
    /\ \E dir \in FoundDirs : dataDir = dir
    /\ memtable = NewSSTableDB(dataDir).memtable
    /\ sstables = NewSSTableDB(dataDir).sstables
    /\ nextSSTableID = NewSSTableDB(dataDir).nextSSTableID
    /\ phase = "loaded"
    /\ crashed = FALSE
    /\ dbMu = Unlocked
    /\ dbThreads = [t \in Threads |-> IdleThread]
    /\ effective = [k \in LsmKeys |-> NeverWritten]
    /\ writes = 0
    /\ TableIdle
    /\ lastRead = NoRead
    /\ LockIdle
    /\ LogIdle
    /\ HashIdle

\* Write of a short value, or Delete: the memtable stays below the threshold
FilesPut ==
    /\ tableWrite.pc = "idle"
    /\ OperationsLeft
    /\ \/ \E k \in LsmKeys : SetDB(SSTableDBWrite(lsm, k, Repeat("v", 1)))
       \/ \E k \in LsmKeys : SetDB(SSTableDBDelete(lsm, k))
    /\ writes' = writes + 1
    /\ phase' = "open"
    /\ UNCHANGED <<crashed, dbMu, dbThreads, effective, tableVars, lastRead, lockVars, logVars, hashVars>>

\* flushMemtable up to os.Create(tempPath) in WriteSSTable
FlushCreate ==
    /\ tableWrite.pc = "idle"
    /\ OperationsLeft
    /\ ~IsEmpty(memtable)
    /\ tableWrite' = [pc |-> "created", op |-> "flush", path |-> nextSSTableID,
                      entries |-> GetSortedEntries(memtable)]
    /\ tmpFiles' = (nextSSTableID :> CreatedFile) @@ tmpFiles
    /\ nextSSTableID' = nextSSTableID + 1
    /\ writes' = writes + 1
    /\ phase' = "open"
    /\ UNCHANGED <<memtable, sstables, dataDir, crashed, dbMu, dbThreads, effective,
                   tableFile, table, lastGet, lastRead, lockVars, logVars, hashVars>>

\* compact on a stack of two or more tables, the memtable flushed, up to
\* os.Create(tempPath); with no live entry it removes the files at once
CompactCreate ==
    /\ tableWrite.pc = "idle"
    /\ OperationsLeft
    /\ IsEmpty(memtable)
    /\ Len(sstables) >= 2
    /\ writes' = writes + 1
    /\ phase' = "open"
    /\ IF LiveKeys(sstables, dataDir) = {}
       THEN /\ SetDB(compact(lsm))
            /\ UNCHANGED <<tmpFiles, tableWrite>>
       ELSE /\ tableWrite' = [pc |-> "created", op |-> "compact", path |-> nextSSTableID,
                              entries |-> compactUntilRemove(lsm).dataDir[nextSSTableID].data]
            /\ tmpFiles' = (nextSSTableID :> CreatedFile) @@ tmpFiles
            /\ nextSSTableID' = nextSSTableID + 1
            /\ UNCHANGED <<memtable, sstables, dataDir>>
    /\ UNCHANGED <<crashed, dbMu, dbThreads, effective, tableFile, table, lastGet, lastRead,
                   lockVars, logVars, hashVars>>

\* the loop of WriteSSTable writes the next data record to the .tmp file
WriteRecord ==
    /\ tableWrite.pc = "created"
    /\ Len(tmpFiles[tableWrite.path].data) < Len(tableWrite.entries)
    /\ tmpFiles' = [tmpFiles EXCEPT ![tableWrite.path].data =
                       Append(@, tableWrite.entries[Len(@) + 1])]
    /\ UNCHANGED <<tableWrite, lsmVars, effective, writes, tableFile, table, lastGet,
                   lastRead, lockVars, logVars, hashVars>>

\* index and footer follow the last record; file.Sync and file.Close
WriteIndexAndFooter ==
    /\ tableWrite.pc = "created"
    /\ Len(tmpFiles[tableWrite.path].data) = Len(tableWrite.entries)
    /\ tmpFiles' = [tmpFiles EXCEPT ![tableWrite.path] = WriteSSTable(tableWrite.entries)]
    /\ tableWrite' = [tableWrite EXCEPT !.pc = "written"]
    /\ UNCHANGED <<lsmVars, effective, writes, tableFile, table, lastGet,
                   lastRead, lockVars, logVars, hashVars>>

\* os.Rename(tempPath, filePath)
RenameTable ==
    /\ SyncedAndClosed(tableWrite)
    /\ tableWrite.pc # "renamed"
    /\ dataDir' = (tableWrite.path :> tmpFiles[tableWrite.path]) @@ dataDir
    /\ tmpFiles' = [p \in DOMAIN tmpFiles \ {tableWrite.path} |-> tmpFiles[p]]
    /\ tableWrite' = [tableWrite EXCEPT !.pc = "renamed"]
    /\ UNCHANGED <<memtable, sstables, nextSSTableID, phase, crashed, dbMu, dbThreads, effective, writes,
                   tableFile, table, lastGet, lastRead, lockVars, logVars, hashVars>>

\* after WriteSSTable: OpenSSTable, then the flush puts the table first and
\* clears the memtable, the compaction removes the old files and keeps the
\* new table alone
InstallTable ==
    /\ tableWrite.pc = "renamed"
    /\ LET sst == OpenSSTable(tableWrite.path, dataDir[tableWrite.path])
       IN  IF tableWrite.op = "flush"
           THEN /\ sstables' = <<sst>> \o sstables
                /\ memtable' = Clear(memtable)
                /\ UNCHANGED dataDir
           ELSE /\ sstables' = <<sst>>
                /\ dataDir' = RemoveFiles(dataDir, sstables)
                /\ UNCHANGED memtable
    /\ tableWrite' = NoTableWrite
    /\ UNCHANGED <<nextSSTableID, phase, crashed, dbMu, dbThreads, effective, writes, tmpFiles,
                   tableFile, table, lastGet, lastRead, lockVars, logVars, hashVars>>

\* a write to the .tmp file fails: WriteSSTable returns the error and the
\* flush or compaction returns it; a failed rename removes the .tmp file
WriteFails ==
    /\ tableWrite.pc \in {"created", "written"}
    /\ tmpFiles' = IF tableWrite.pc = "written"
                   THEN [p \in DOMAIN tmpFiles \ {tableWrite.path} |-> tmpFiles[p]]
                   ELSE tmpFiles
    /\ tableWrite' = NoTableWrite
    /\ UNCHANGED <<lsmVars, effective, writes, tableFile, table, lastGet,
                   lastRead, lockVars, logVars, hashVars>>

\* the process stops wherever it is, and NewSSTableDB runs on the directory
\* it left
FilesOpen ==
    /\ phase # "loaded"
    /\ SetDB(NewSSTableDB(dataDir))
    /\ tableWrite' = NoTableWrite
    /\ phase' = "loaded"
    /\ crashed' = TRUE
    /\ UNCHANGED <<dbMu, dbThreads>>
    /\ UNCHANGED <<effective, writes, tmpFiles, tableFile, table, lastGet,
                   lastRead, lockVars, logVars, hashVars>>

NextLsmFiles ==
    \/ FilesPut
    \/ FlushCreate
    \/ CompactCreate
    \/ WriteRecord
    \/ WriteIndexAndFooter
    \/ RenameTable
    \/ InstallTable
    \/ WriteFails
    \/ FilesOpen
    \/ LsmRead

SpecLsmFiles == InitLsmFiles /\ [][NextLsmFiles]_vars


\* a compaction is removing the files of the tables it merged
CompactionRemoves ==
    \/ tableWrite.pc = "renamed" /\ tableWrite.op = "compact"
    \/ /\ tableWrite.pc = "idle"
       /\ IsEmpty(memtable)
       /\ Len(sstables) >= 2
       /\ LiveKeys(sstables, dataDir) = {}

\* C28: a .sst name never refers to a partially written table; a file that
\* stays in the directory keeps its content at every step; a new .sst file
\* is the complete content of its .tmp sibling, which the rename takes
\* away; and files leave the directory only when a compaction removes the
\* tables it merged.
C28_TableFilesImmutable ==
    /\ [](\A p \in DOMAIN dataDir : Complete(dataDir[p]))
    /\ [][/\ \A p \in DOMAIN dataDir \cap DOMAIN dataDir' : dataDir'[p] = dataDir[p]
          /\ \A p \in DOMAIN dataDir' \ DOMAIN dataDir :
                /\ p \in DOMAIN tmpFiles
                /\ Complete(tmpFiles[p])
                /\ dataDir'[p] = tmpFiles[p]
                /\ p \notin DOMAIN tmpFiles'
          /\ DOMAIN dataDir \ DOMAIN dataDir' # {} =>
                /\ CompactionRemoves
                /\ DOMAIN dataDir \ DOMAIN dataDir' =
                       {sstables[i].FilePath : i \in 1..Len(sstables)}]_vars

\* a table has just been renamed into place while the .tmp file of an
\* earlier failed write is still there, partially written
C28_Witness ==
    /\ tableWrite.pc = "renamed"
    /\ tableWrite.path \in DOMAIN dataDir
    /\ \E p \in DOMAIN tmpFiles : ~Complete(tmpFiles[p]) /\ Len(tmpFiles[p].data) >= 1


\* the files of the directory whose names are sstable_<digits>.sst
NumberedFiles(dir) == {p \in DOMAIN dir : p # CopyPath}

\* C29: right after NewSSTableDB the stack holds exactly the files named
\* sstable_<digits>.sst, one table each, ordered by table id descending, and
\* the next table id is the greatest loaded id plus one, or 0 without a
\* table.
C29_OpenLoadsNumberedTables ==
    phase = "loaded" =>
        /\ Len(sstables) = Cardinality(NumberedFiles(dataDir))
        /\ {sstables[i].FilePath : i \in 1..Len(sstables)} = NumberedFiles(dataDir)
        /\ \A i, j \in 1..Len(sstables) :
               i < j => sstables[i].FilePath > sstables[j].FilePath
        /\ nextSSTableID = IF Len(sstables) = 0 THEN 0
                           ELSE MaxID({sstables[i].FilePath : i \in 1..Len(sstables)}) + 1

\* the positions of the stack whose table has an id
NumberedPositions == {i \in 1..Len(sstables) : sstables[i].FilePath # CopyPath}

\* C30: the ids of the tables in the stack strictly decrease from the newest
\* position to the oldest and are all smaller than the next table id; the
\* next table id never decreases while an instance lives; a flush or a
\* compaction never names its table after a file that is in the directory.
C30_TableIdsDecreaseBelowNextId ==
    /\ [](/\ \A i, j \in NumberedPositions :
                i < j => sstables[i].FilePath > sstables[j].FilePath
          /\ \A i \in NumberedPositions : sstables[i].FilePath < nextSSTableID)
    /\ [][/\ phase' # "loaded" => nextSSTableID' >= nextSSTableID
          /\ (tableWrite.pc = "idle" /\ tableWrite'.pc = "created") =>
                tableWrite'.path \notin DOMAIN dataDir]_vars


\* ------------------------------------------------------------------------
\* LSM engine: the size-triggered flush of Write and Delete
\* ------------------------------------------------------------------------

\* the memtables a Write or Delete of the offered inputs can leave after
\* its Put or Delete, before the size test
AppliedMemtables ==
    {MemtablePut(memtable, kv[1], kv[2]) : kv \in LsmWrites}
        \cup {MemtableDelete(memtable, k) : k \in LsmKeys}

MemtableAfterSnapshot(m) == m

InitMemtable ==
    /\ LsmIdle
    /\ effective = [k \in LsmKeys |-> NeverWritten]
    /\ writes = 0
    /\ lastRead = NoRead
    /\ LockIdle
    /\ LogIdle
    /\ HashIdle
    /\ TableIdle

DoPut ==
    \E k \in LsmKeys, v \in Values :
        /\ memtable' = MemtablePut(memtable, k, v)
        /\ effective' = [effective EXCEPT ![k] = [written |-> TRUE, deleted |-> FALSE, value |-> v]]
        /\ lastRead' = NoRead
        /\ UNCHANGED <<sstables, nextSSTableID, dataDir, phase, crashed, dbMu, dbThreads, writes,
                       lockVars, logVars, hashVars, tableVars>>

DoDelete ==
    \E k \in LsmKeys :
        /\ memtable' = MemtableDelete(memtable, k)
        /\ effective' = [effective EXCEPT ![k] = [written |-> TRUE, deleted |-> TRUE, value |-> EmptyString]]
        /\ lastRead' = NoRead
        /\ UNCHANGED <<sstables, nextSSTableID, dataDir, phase, crashed, dbMu, dbThreads, writes,
                       lockVars, logVars, hashVars, tableVars>>

DoClear ==
    /\ memtable' = Clear(memtable)
    /\ effective' = [k \in LsmKeys |-> NeverWritten]
    /\ lastRead' = NoRead
    /\ UNCHANGED <<sstables, nextSSTableID, dataDir, phase, crashed, dbMu, dbThreads, writes,
                   lockVars, logVars, hashVars, tableVars>>

DoGetSortedEntries ==
    /\ ~lastRead.done
    /\ lastRead' = [engine |-> "memtable", key |-> "",
                    ret |-> GetSortedEntries(memtable), done |-> TRUE]
    /\ memtable' = MemtableAfterSnapshot(memtable)
    /\ UNCHANGED <<sstables, nextSSTableID, dataDir, phase, crashed, dbMu, dbThreads, writes, effective,
                   lockVars, logVars, hashVars, tableVars>>

NextMemtable ==
    \/ DoPut
    \/ DoDelete
    \/ DoClear
    \/ DoGetSortedEntries

SpecMemtable == InitMemtable /\ [][NextMemtable]_vars

\* key length plus, for an entry that is no tombstone, value length, summed
\* over the entries of the given keys
RECURSIVE SumOfEntries(_, _)
SumOfEntries(m, keys) ==
    IF keys = {} THEN 0
    ELSE LET k == CHOOSE x \in keys : TRUE
             e == m.entries[k]
         IN  Len(e.Key) + (IF e.Deleted THEN 0 ELSE StrLen(e.Value))
                 + SumOfEntries(m, keys \ {k})

\* C32: the size counter of the memtable is the sum over its entries of the
\* key length plus the value length of the entries that are no tombstones;
\* it is 0 exactly when the memtable has no entry; it is never negative.
C32_SizeIsSumOfEntries ==
    /\ Size(memtable) = SumOfEntries(memtable, DOMAIN memtable.entries)
    /\ Size(memtable) = 0 <=> IsEmpty(memtable)
    /\ Size(memtable) >= 0


\* the keys Put or Delete touched since the memtable was new or cleared
KeysPresent == {k \in LsmKeys : effective[k].written}

\* C33: GetSortedEntries returns one entry per key of the memtable, the
\* latest record of the key, tombstones included, in strictly ascending key
\* order, and the memtable is as it was before the call.
C33_SnapshotIsSortedLatestRecords ==
    /\ [](lastRead.done =>
            LET entries == lastRead.ret
            IN  /\ Len(entries) = Cardinality(KeysPresent)
                /\ {entries[i].Key : i \in 1..Len(entries)} = KeysPresent
                /\ \A i \in 1..Len(entries) :
                       entries[i] = Entry(entries[i].Key,
                                          effective[entries[i].Key].value,
                                          effective[entries[i].Key].deleted)
                /\ \A i, j \in 1..Len(entries) :
                       i < j => KeyLess(entries[i].Key, entries[j].Key))
    /\ [][(~lastRead.done /\ lastRead'.done) => memtable' = memtable]_vars

\* a snapshot of a memtable that holds a tombstone and a value
C33_Witness ==
    /\ lastRead.done
    /\ \E i, j \in 1..Len(lastRead.ret) :
           /\ lastRead.ret[i].Deleted
           /\ ~lastRead.ret[j].Deleted
           /\ StrLen(lastRead.ret[j].Value) > 0


\* ------------------------------------------------------------------------
\* Log engine: one caller, each call followed write by write
\* (src/log/log.go).  A write to the file may fail, and the process may stop
\* between any two writes; the next instance finds the files as they are.
\* ------------------------------------------------------------------------

\* the goroutine that makes the calls
caller == CHOOSE t \in Threads : TRUE

\* the calls it chooses from
StepCalls ==
    {[op |-> "Write",   key |-> "a", value |-> Repeat("w", 2)],
     [op |-> "Write",   key |-> "b", value |-> Repeat("v", 1)],
     [op |-> "Delete",  key |-> "a", value |-> EmptyString],
     [op |-> "Compact", key |-> "",  value |-> EmptyString]}

\* what a scanner gets from the log file: its lines, and as the last token
\* the bytes after the last newline
LiveFile == logFile \o logTail

\* the bytes after the last newline once line is written behind them: the
\* line itself, or one run of bytes that is no JSON object
TailWith(tail, line) ==
    IF tail = <<>> THEN <<line>>
    ELSE <<MalformedLine(Repeat("{", LineLen(tail[1]) + LineLen(line)))>>

\* the record a Write or Delete call marshals
StepRecord(c) == CurrentLine(c.key, c.value, c.op = "Delete")

\* a proper, non-empty prefix of the bytes of a record
TornRecord(c) == MalformedLine(Repeat("{", LineLen(StepRecord(c)) \div 2))

\* a compact that renames whatever the temporary file holds
TempCreated(c) == TRUE

\* compact wrote a line for every surviving entry: os.Rename is reached
TempComplete(c) == Len(logTemps[Len(logTemps)]) = Len(c.local)

SetCaller(rec) == logThreads' = [logThreads EXCEPT ![caller] = rec]

InitLogSteps ==
    /\ logFile = UsedLog
    /\ logExists = TRUE
    /\ logTail = <<>>
    /\ logTemps = <<>>
    /\ mu = Unlocked
    /\ logThreads = [t \in Threads |-> IdleThread]
    /\ effective = <<>>
    /\ writes = 0
    /\ LsmIdle
    /\ LockIdle
    /\ TableIdle
    /\ lastRead = NoRead
    /\ HashIdle

\* the caller enters Write, Delete or Compact
StepCall ==
    /\ logThreads[caller].pc = "idle"
    /\ writes < MaxWrites
    /\ \E c \in StepCalls :
          SetCaller([IdleThread EXCEPT !.pc = "called", !.op = c.op,
                                       !.key = c.key, !.value = c.value])
    /\ writes' = writes + 1
    /\ UNCHANGED <<logFile, logExists, logTail, logTemps, mu, effective,
                   lsmVars, lockVars, hashVars, tableVars, lastRead>>

\* Write and Delete: file.Write(marshalled) on the file opened with O_APPEND
StepWriteData ==
    /\ logThreads[caller].pc = "called"
    /\ logThreads[caller].op \in {"Write", "Delete"}
    /\ logTail' = TailWith(logTail, StepRecord(logThreads[caller]))
    /\ SetCaller([logThreads[caller] EXCEPT !.pc = "data"])
    /\ UNCHANGED <<logFile, logExists, logTemps, mu, effective, writes,
                   lsmVars, lockVars, hashVars, tableVars, lastRead>>

\* file.Write(marshalled) stores a part of the record and fails, or the
\* process stops in it
StepWriteTorn ==
    /\ logThreads[caller].pc = "called"
    /\ logThreads[caller].op \in {"Write", "Delete"}
    /\ logTail' = TailWith(logTail, TornRecord(logThreads[caller]))
    /\ SetCaller([logThreads[caller] EXCEPT !.pc = "idle", !.ret = "torn"])
    /\ UNCHANGED <<logFile, logExists, logTemps, mu, effective, writes,
                   lsmVars, lockVars, hashVars, tableVars, lastRead>>

\* file.Write("\n"), file.Sync(), return nil
StepWriteNewline ==
    /\ logThreads[caller].pc = "data"
    /\ logFile' = logFile \o logTail
    /\ logTail' = <<>>
    /\ SetCaller([logThreads[caller] EXCEPT !.pc = "idle", !.ret = "ok"])
    /\ UNCHANGED <<logExists, logTemps, mu, effective, writes,
                   lsmVars, lockVars, hashVars, tableVars, lastRead>>

\* file.Write("\n") fails, or the process stops before it
StepNewlineFails ==
    /\ logThreads[caller].pc = "data"
    /\ SetCaller([logThreads[caller] EXCEPT !.pc = "idle", !.ret = "unterminated"])
    /\ UNCHANGED <<logFile, logExists, logTail, logTemps, mu, effective, writes,
                   lsmVars, lockVars, hashVars, tableVars, lastRead>>

\* compact: the scan loop, then os.CreateTemp; local holds the lines the
\* loop over latestEntries is going to write, in the order of its range
StepCompactScan ==
    /\ logThreads[caller].pc = "called"
    /\ logThreads[caller].op = "Compact"
    /\ IF ScanFailed(LiveFile)
       THEN /\ SetCaller([logThreads[caller] EXCEPT !.pc = "idle", !.ret = "error"])
            /\ UNCHANGED logTemps
       ELSE /\ \E order \in Orders(Survivors(LiveFile)) :
                  SetCaller([logThreads[caller] EXCEPT
                                !.pc = "created", !.local = compactLog(LiveFile, order)])
            /\ logTemps' = Append(logTemps, <<>>)
    /\ UNCHANGED <<logFile, logExists, logTail, mu, effective, writes,
                   lsmVars, lockVars, hashVars, tableVars, lastRead>>

\* compact: tmpFile.Write(marshalled) and tmpFile.Write("\n") of one entry
StepTempWrite ==
    /\ logThreads[caller].pc = "created"
    /\ Len(logTemps[Len(logTemps)]) < Len(logThreads[caller].local)
    /\ logTemps' = [logTemps EXCEPT ![Len(logTemps)] =
                       Append(@, logThreads[caller].local[Len(@) + 1])]
    /\ UNCHANGED <<logFile, logExists, logTail, mu, logThreads, effective, writes,
                   lsmVars, lockVars, hashVars, tableVars, lastRead>>

\* compact: os.Rename(tmpPath, l.LogPath), return nil
StepRename ==
    /\ logThreads[caller].pc = "created"
    /\ TempComplete(logThreads[caller])
    /\ logFile' = logTemps[Len(logTemps)]
    /\ logTail' = <<>>
    /\ logTemps' = SubSeq(logTemps, 1, Len(logTemps) - 1)
    /\ SetCaller([logThreads[caller] EXCEPT !.pc = "idle", !.ret = "ok"])
    /\ UNCHANGED <<logExists, mu, effective, writes,
                   lsmVars, lockVars, hashVars, tableVars, lastRead>>

\* compact: a write to the temporary file or the rename fails, or the
\* process stops; the deferred os.Remove tests the err of os.CreateTemp,
\* which is nil, so the temporary file stays
StepCompactFails ==
    /\ logThreads[caller].pc = "created"
    /\ SetCaller([logThreads[caller] EXCEPT !.pc = "idle", !.ret = "error"])
    /\ UNCHANGED <<logFile, logExists, logTail, logTemps, mu, effective, writes,
                   lsmVars, lockVars, hashVars, tableVars, lastRead>>

\* Read between two calls
StepRead ==
    /\ logThreads[caller].pc = "idle"
    /\ \E k \in LogKeys : LogRead(LiveFile, k).err \in STRING
    /\ UNCHANGED vars

NextLogSteps ==
    \/ StepCall
    \/ StepWriteData
    \/ StepWriteTorn
    \/ StepWriteNewline
    \/ StepNewlineFails
    \/ StepCompactScan
    \/ StepTempWrite
    \/ StepRename
    \/ StepCompactFails
    \/ StepRead

SpecLogSteps == InitLogSteps /\ [][NextLogSteps]_vars

\* the caller is inside compact
Compacting == logThreads[caller].op = "Compact" /\ logThreads[caller].pc # "idle"

\* C34: every step of a compact leaves the log file as it was, except the
\* one that returns ok, after which the file is the complete compacted
\* content of the file before it; a compact that fails or stops leaves the
\* file unchanged.
C34_CompactReplacesFileAtomically ==
    [][Compacting =>
         \/ UNCHANGED <<logFile, logTail>>
         \/ /\ logThreads'[caller].ret = "ok"
            /\ logTail' = <<>>
            /\ \E order \in Orders(Survivors(LiveFile)) :
                   logFile' = compactLog(LiveFile, order)]_vars

\* a compact failed after it wrote one of two lines, and a later one renamed
C34_Witness ==
    /\ logThreads[caller].op = "Compact"
    /\ logThreads[caller].pc = "idle"
    /\ logThreads[caller].ret = "ok"
    /\ Len(logFile) = 2
    /\ \E i \in 1..Len(logTemps) : Len(logTemps[i]) = 1


\* C37: when a Write or Delete leaves bytes without a newline at the end of
\* the file, every other key reads as before; and a Write that returns ok is
\* readable as the value it wrote, whatever an earlier call left at the end
\* of the file.
C37_TornWriteIsContained ==
    [][/\ (logTail = <<>> /\ logTail' # <<>>) =>
              \A k \in LogKeys \ {logThreads[caller].key} :
                  LogRead(LiveFile', k) = LogRead(LiveFile, k)
       /\ (/\ logThreads[caller].op = "Write"
           /\ logThreads[caller].pc = "data"
           /\ logThreads'[caller].ret = "ok") =>
              LogRead(LiveFile', logThreads[caller].key)
                  = [value |-> logThreads[caller].value, err |-> ""]]_vars


\* ------------------------------------------------------------------------
\* Log engine: what Read answers before and after a compaction
\* ------------------------------------------------------------------------

compactUntilRemoved(db, n) ==
    LET written == IF LiveKeys(db.sstables, db.dataDir) = {} THEN db
                   ELSE compactUntilRemove(db)
    IN  [written EXCEPT !.dataDir = RemoveFiles(written.dataDir, SubSeq(db.sstables, 1, n))]

\* Compact stops after some and before all of the old files are removed.
\* The variables keep the stopped instance as it was when compact began
\* (memtable flushed, the old stack), next to the directory it leaves.
LsmCleanupCrash ==
    /\ phase # "halted"
    /\ nextSSTableID + 1 < MaxTableId
    /\ Len(BeforeCompact.sstables) >= 2
    /\ \E n \in 1..(Len(BeforeCompact.sstables) - 1) :
          SetDB(compactUntilRemoved(BeforeCompact, n))
    /\ phase' = "halted"
    /\ UNCHANGED <<effective, crashed, dbMu, dbThreads, writes, lockVars, logVars, hashVars, tableVars, lastRead>>

NextLsmCleanup ==
    \/ phase # "halted" /\ NextLSM
    \/ LsmCleanupCrash
    \/ LsmRecover

SpecLsmCleanup == InitLSM /\ [][NextLsmCleanup]_vars

\* C36: when compact stops after it removed some of the old table files and
\* before it removed all, the instance opened next on the directory answers
\* Read of every key as the instance did when the compaction began.
C36_StoppedCleanupKeepsReads ==
    [][LsmCleanupCrash =>
          \A k \in RealKeys :
              SSTableDBRead(NewSSTableDB(dataDir'), k) = SSTableDBRead(BeforeCompact, k)]_vars


\* ------------------------------------------------------------------------
\* LSM engine: a Write or Delete whose size-triggered flush, or the
\* compaction after it, fails in WriteSSTable
\* ------------------------------------------------------------------------

\* flushMemtable when WriteSSTable returns an error: the id is taken, the
\* .tmp file stays, the memtable and the stack are as they were
flushMemtableFails(db) == [db EXCEPT !.nextSSTableID = db.nextSSTableID + 1]

\* compact when WriteSSTable returns an error: the id is taken, the stack
\* and the old files are as they were
compactFails(db) == [db EXCEPT !.nextSSTableID = db.nextSSTableID + 1]

\* the instance a Write or Delete leaves when it returns "failed to flush
\* memtable" or "failed to compact"; db has the record applied
FailedTails(db) ==
    IF Size(db.memtable) < MemtableFlushThreshold THEN {}
    ELSE {flushMemtableFails(db)}
         \cup (LET flushed == flushMemtable(db)
               IN  IF /\ Len(flushed.sstables) >= CompactionThreshold
                      /\ LiveKeys(flushed.sstables, flushed.dataDir) # {}
                   THEN {compactFails(flushed)}
                   ELSE {})

\* Write returns an error
LsmWriteFails ==
    \E kv \in LsmWrites :
        /\ writes < MaxWrites
        /\ nextSSTableID + 1 < MaxTableId
        /\ \E failed \in FailedTails([lsm EXCEPT !.memtable =
                                         MemtablePut(memtable, kv[1], kv[2])]) :
              /\ SetDB(failed)
              /\ tmpFiles' = ((failed.nextSSTableID - 1) :> CreatedFile) @@ tmpFiles
        /\ phase' = "open"
        /\ writes' = writes + 1
        /\ UNCHANGED <<effective, crashed, dbMu, dbThreads, lockVars, logVars, hashVars,
                       tableFile, table, lastGet, tableWrite, lastRead>>

\* Delete returns an error
LsmDeleteFails ==
    \E k \in LsmKeys :
        /\ writes < MaxWrites
        /\ nextSSTableID + 1 < MaxTableId
        /\ \E failed \in FailedTails([lsm EXCEPT !.memtable = MemtableDelete(memtable, k)]) :
              /\ SetDB(failed)
              /\ tmpFiles' = ((failed.nextSSTableID - 1) :> CreatedFile) @@ tmpFiles
        /\ phase' = "open"
        /\ writes' = writes + 1
        /\ UNCHANGED <<effective, crashed, dbMu, dbThreads, lockVars, logVars, hashVars,
                       tableFile, table, lastGet, tableWrite, lastRead>>

NextLsmFail ==
    \/ NextLSM
    \/ LsmWriteFails
    \/ LsmDeleteFails

SpecLsmFail == InitLSM /\ [][NextLsmFail]_vars

\* C38: after a Write or Delete that returns an error, Read of every key
\* answers as it did before the call.
C38_FailedWriteHasNoEffect ==
    [][(LsmWriteFails \/ LsmDeleteFails) =>
          \A k \in LsmKeys : SSTableDBRead(lsm', k) = SSTableDBRead(lsm, k)]_vars


\* ------------------------------------------------------------------------
\* Hash engine: a Delete that returns an error (src/hashkv/hashkv.go).
\* Delete opens the file, seeks to its end, writes the length, writes the
\* tombstone, syncs and only then removes the key from the index; each of
\* the five steps can fail, and the call returns the error at once.  The
\* behaviours are followed up to the first unfinished frame: a failed
\* Delete that leaves one is the last write to the file.
\* ------------------------------------------------------------------------

\* the steps of Delete that return an error
DeleteSteps == {"open", "seek", "length", "tombstone", "sync"}

\* the bytes of the frame that are in the file when the step fails: a write
\* that fails has written nothing or a part of its bytes
BytesWritten(rec, step) ==
    CASE step \in {"open", "seek"} -> {0}
      [] step = "length"           -> {0, LengthPrefixBytes \div 2}
      [] step = "tombstone"        -> {LengthPrefixBytes, RecordLen(rec) - 1}
      [] step = "sync"             -> {RecordLen(rec)}

\* the instance after a Delete whose sync failed: the tombstone is in the
\* file, the error is returned before delete(h.byteOffsetIndex, key)
HashKVDeleteUnsynced(h, key) ==
    [file |-> HashKVDelete(h, key).file, index |-> h.index]

\* NewHashKV on a file that ends in an unfinished frame of tail bytes: a
\* length cut short and a payload cut short are io.ErrUnexpectedEOF, which
\* is not io.EOF and ends the process in log.Fatal; a whole length with no
\* payload byte is io.EOF and ends the loop
NewHashKVOnTail(file, tail, first) ==
    IF tail = 0 \/ tail = LengthPrefixBytes
    THEN [fatal |-> FALSE, h |-> NewHashKV(file, first)]
    ELSE [fatal |-> TRUE, h |-> [file |-> file, index |-> <<>>]]

\* Delete(key) returns the error of the step
HashDeleteFails(key, step) ==
    /\ writes < MaxWrites
    /\ hashTail = 0
    /\ \E n \in BytesWritten(HashKVEntry(key, EmptyString, TRUE), step) :
          IF step = "sync"
          THEN /\ hashFile' = HashKVDeleteUnsynced(hashkv, key).file
               /\ byteOffsetIndex' = HashKVDeleteUnsynced(hashkv, key).index
               /\ hashTail' = 0
          ELSE /\ hashTail' = n
               /\ UNCHANGED <<hashFile, byteOffsetIndex>>
    /\ writes' = writes + 1
    /\ UNCHANGED <<lsmVars, lockVars, logVars, hashThreads, tableVars, lastRead, effective>>

DoHashDeleteFails == \E k \in HashKeys, step \in DeleteSteps : HashDeleteFails(k, step)

\* NewHashKV on the file as the failed Delete left it
DoHashOpenOnTail ==
    /\ hashTail # 0
    /\ \E first \in [1..Len(hashFile) -> MemberNames] :
          /\ ~NewHashKVOnTail(hashFile, hashTail, first).fatal
          /\ SetHashKV(NewHashKVOnTail(hashFile, hashTail, first).h)
    /\ UNCHANGED <<lsmVars, lockVars, logVars, effective, writes, tableVars, lastRead>>

NextHashFail ==
    \/ (hashTail = 0 /\ NextHash)
    \/ DoHashDeleteFails
    \/ DoHashOpenOnTail

SpecHashFail == InitHash /\ [][NextHashFail]_vars

\* C40: a Delete(K) that returns an error at any step leaves K's effective
\* value unchanged for this instance and for an instance opened later on
\* the same file: Read(K) answers as before, the file can be opened, and the
\* index rebuilt from it holds K exactly when the in-memory index does.
C40_FailedDeleteKeepsKey ==
    [][\A k \in HashKeys, step \in DeleteSteps :
          HashDeleteFails(k, step) =>
              /\ HashKVRead(hashkv', k) = HashKVRead(hashkv, k)
              /\ \A first \in [1..Len(hashFile') -> MemberNames] :
                    LET opened == NewHashKVOnTail(hashFile', hashTail', first)
                    IN  /\ ~opened.fatal
                        /\ (k \in DOMAIN opened.h.index) <=> (k \in DOMAIN byteOffsetIndex')]_vars


\* ------------------------------------------------------------------------
\* LSM engine: several threads on one instance (src/sstable/sstable_db.go).
\* Each thread makes one call; a step is a lock operation, a change of one
\* field of the instance or an operation on the directory.  Write, Delete,
\* Flush, Compact and Close hold db.mu.Lock() from their first line to their
\* return, Read holds db.mu.RLock().
\* ------------------------------------------------------------------------

\* the calls the threads choose from
DbCalls ==
    {[op |-> "Write",   key |-> "a", value |-> Repeat("x", BigLen)],
     [op |-> "Write",   key |-> "b", value |-> Repeat("v", 1)],
     [op |-> "Delete",  key |-> "b", value |-> EmptyString],
     [op |-> "Flush",   key |-> "",  value |-> EmptyString],
     [op |-> "Compact", key |-> "",  value |-> EmptyString],
     [op |-> "Close",   key |-> "",  value |-> EmptyString],
     [op |-> "Read",    key |-> "a", value |-> EmptyString],
     [op |-> "Read",    key |-> "b", value |-> EmptyString]}

\* the variables of the other engines
notLsm == <<lockVars, logVars, hashVars, tableVars, lastRead>>

SetDbThread(t, rec) == dbThreads' = [dbThreads EXCEPT ![t] = rec]

\* where a call goes on when flushMemtable has returned nil
AfterFlush(c, stackLen) ==
    CASE c.op \in {"Write", "Delete"} ->
             IF stackLen >= CompactionThreshold THEN "compact" ELSE "unlock"
      [] c.op = "Compact"              -> "compact"
      [] c.op \in {"Flush", "Close"}   -> "unlock"

\* a thread calls Write, Delete, Flush, Compact, Close or Read
DbCall(t) ==
    /\ dbThreads[t].pc = "idle"
    /\ \E c \in DbCalls :
          SetDbThread(t, [dbThreads[t] EXCEPT !.pc = "lock", !.op = c.op,
                                              !.key = c.key, !.value = c.value])
    /\ UNCHANGED <<memtable, sstables, nextSSTableID, dataDir, phase, crashed, dbMu,
                   effective, writes, notLsm>>

\* db.mu.Lock() of Write, Delete, Flush, Compact and Close; Compact and
\* Close test the memtable first.  A call is let in while there are table
\* ids left for a flush and a compaction.
DbLock(t) ==
    /\ dbThreads[t].pc = "lock"
    /\ dbThreads[t].op # "Read"
    /\ nextSSTableID + 2 <= MaxTableId
    /\ CanLock(dbMu, t)
    /\ dbMu' = [dbMu EXCEPT !.writer = t]
    /\ SetDbThread(t, [dbThreads[t] EXCEPT !.pc =
          CASE dbThreads[t].op \in {"Write", "Delete"} -> "put"
            [] dbThreads[t].op = "Flush"   -> "flush"
            [] dbThreads[t].op = "Compact" -> IF ~IsEmpty(memtable) THEN "flush" ELSE "compact"
            [] dbThreads[t].op = "Close"   -> IF ~IsEmpty(memtable) THEN "flush" ELSE "unlock"])
    /\ UNCHANGED <<memtable, sstables, nextSSTableID, dataDir, phase, crashed,
                   effective, writes, notLsm>>

\* db.mu.RLock() of Read
DbRLock(t) ==
    /\ dbThreads[t].pc = "lock"
    /\ dbThreads[t].op = "Read"
    /\ CanRLock(dbMu, t)
    /\ dbMu' = [dbMu EXCEPT !.readers = @ \cup {t}]
    /\ SetDbThread(t, [dbThreads[t] EXCEPT !.pc = "get"])
    /\ UNCHANGED <<memtable, sstables, nextSSTableID, dataDir, phase, crashed,
                   effective, writes, notLsm>>

\* Write and Delete: db.memtable.Put or db.memtable.Delete, then the test of
\* the size against MemtableFlushThreshold
DbPut(t) ==
    /\ dbThreads[t].pc = "put"
    /\ memtable' = IF dbThreads[t].op = "Write"
                   THEN MemtablePut(memtable, dbThreads[t].key, dbThreads[t].value)
                   ELSE MemtableDelete(memtable, dbThreads[t].key)
    /\ effective' = Accept(dbThreads[t].key,
                           [written |-> TRUE, deleted |-> dbThreads[t].op = "Delete",
                            value |-> dbThreads[t].value])
    /\ writes' = writes + 1
    /\ SetDbThread(t, [dbThreads[t] EXCEPT !.pc =
          IF Size(memtable') >= MemtableFlushThreshold THEN "flush" ELSE "unlock"])
    /\ UNCHANGED <<sstables, nextSSTableID, dataDir, phase, crashed, dbMu, notLsm>>

\* flushMemtable up to OpenSSTable: the table file is written under the
\* next id; an empty memtable returns nil at once
DbFlushWrite(t) ==
    /\ dbThreads[t].pc = "flush"
    /\ IF IsEmpty(memtable)
       THEN /\ SetDbThread(t, [dbThreads[t] EXCEPT !.pc = AfterFlush(dbThreads[t], Len(sstables))])
            /\ UNCHANGED <<nextSSTableID, dataDir>>
       ELSE /\ dataDir' = flushMemtable(lsm).dataDir
            /\ nextSSTableID' = flushMemtable(lsm).nextSSTableID
            /\ SetDbThread(t, [dbThreads[t] EXCEPT !.pc = "flushAdd",
                                                   !.local = flushMemtable(lsm).sstables])
    /\ UNCHANGED <<memtable, sstables, phase, crashed, dbMu, effective, writes, notLsm>>

\* flushMemtable: db.sstables = append([]*SSTable{sst}, db.sstables...)
DbFlushAdd(t) ==
    /\ dbThreads[t].pc = "flushAdd"
    /\ sstables' = <<dbThreads[t].local[1]>> \o sstables
    /\ SetDbThread(t, [dbThreads[t] EXCEPT !.pc = "flushClear", !.local = <<>>])
    /\ UNCHANGED <<memtable, nextSSTableID, dataDir, phase, crashed, dbMu,
                   effective, writes, notLsm>>

\* flushMemtable: db.memtable.Clear(); Write and Delete then test the stack
\* against CompactionThreshold
DbFlushClear(t) ==
    /\ dbThreads[t].pc = "flushClear"
    /\ memtable' = Clear(memtable)
    /\ SetDbThread(t, [dbThreads[t] EXCEPT !.pc = AfterFlush(dbThreads[t], Len(sstables))])
    /\ UNCHANGED <<sstables, nextSSTableID, dataDir, phase, crashed, dbMu,
                   effective, writes, notLsm>>

\* compact up to OpenSSTable: a stack of fewer than two tables returns nil;
\* the merged table is written unless every key's newest record is a tombstone
DbCompactWrite(t) ==
    /\ dbThreads[t].pc = "compact"
    /\ IF Len(sstables) < 2
       THEN /\ SetDbThread(t, [dbThreads[t] EXCEPT !.pc = "unlock"])
            /\ UNCHANGED <<nextSSTableID, dataDir>>
       ELSE IF LiveKeys(sstables, dataDir) = {}
       THEN /\ SetDbThread(t, [dbThreads[t] EXCEPT !.pc = "remove", !.local = <<>>])
            /\ UNCHANGED <<nextSSTableID, dataDir>>
       ELSE LET written == compactUntilRemove(lsm)
            IN  /\ dataDir' = written.dataDir
                /\ nextSSTableID' = written.nextSSTableID
                /\ SetDbThread(t, [dbThreads[t] EXCEPT
                      !.pc = "remove",
                      !.local = <<OpenSSTable(nextSSTableID, written.dataDir[nextSSTableID])>>])
    /\ UNCHANGED <<memtable, sstables, phase, crashed, dbMu, effective, writes, notLsm>>

\* compact: os.Remove of the file of every table of the stack
DbCompactRemove(t) ==
    /\ dbThreads[t].pc = "remove"
    /\ dataDir' = RemoveFiles(dataDir, sstables)
    /\ SetDbThread(t, [dbThreads[t] EXCEPT !.pc = "replace"])
    /\ UNCHANGED <<memtable, sstables, nextSSTableID, phase, crashed, dbMu,
                   effective, writes, notLsm>>

\* compact: db.sstables = []*SSTable{compactedSST}, or nil
DbCompactReplace(t) ==
    /\ dbThreads[t].pc = "replace"
    /\ sstables' = dbThreads[t].local
    /\ SetDbThread(t, [dbThreads[t] EXCEPT !.pc = "unlock", !.local = <<>>])
    /\ UNCHANGED <<memtable, nextSSTableID, dataDir, phase, crashed, dbMu,
                   effective, writes, notLsm>>

\* Read: db.memtable.Get(key)
DbReadMemtable(t) ==
    /\ dbThreads[t].pc = "get"
    /\ IF MemtableGet(memtable, dbThreads[t].key).found
       THEN SetDbThread(t, [dbThreads[t] EXCEPT
               !.pc = "unlock",
               !.ret = [value |-> MemtableGet(memtable, dbThreads[t].key).value,
                        ok |-> TRUE, err |-> ""]])
       ELSE SetDbThread(t, [dbThreads[t] EXCEPT !.pc = "table", !.local = 1])
    /\ UNCHANGED <<memtable, sstables, nextSSTableID, dataDir, phase, crashed, dbMu,
                   effective, writes, notLsm>>

\* Read: sst.Get(key) on the next table of db.sstables, which opens the
\* file the table's path names
DbReadTable(t) ==
    /\ dbThreads[t].pc = "table"
    /\ LET i == dbThreads[t].local
       IN  IF i > Len(sstables)
           THEN SetDbThread(t, [dbThreads[t] EXCEPT
                   !.pc = "unlock",
                   !.ret = [value |-> EmptyString, ok |-> FALSE, err |-> ""]])
           ELSE IF sstables[i].FilePath \notin DOMAIN dataDir
           THEN SetDbThread(t, [dbThreads[t] EXCEPT
                   !.pc = "unlock",
                   !.ret = [value |-> EmptyString, ok |-> FALSE,
                            err |-> "failed to read from SSTable"]])
           ELSE LET got == SSTableGet(sstables[i], dataDir[sstables[i].FilePath],
                                      dbThreads[t].key)
                IN  IF got.exists
                    THEN SetDbThread(t, [dbThreads[t] EXCEPT
                            !.pc = "unlock",
                            !.ret = [value |-> got.value,
                                     ok |-> got.value # EmptyString, err |-> ""]])
                    ELSE SetDbThread(t, [dbThreads[t] EXCEPT !.local = i + 1])
    /\ UNCHANGED <<memtable, sstables, nextSSTableID, dataDir, phase, crashed, dbMu,
                   effective, writes, notLsm>>

\* the deferred db.mu.Unlock() or db.mu.RUnlock(); the call returns
DbUnlock(t) ==
    /\ dbThreads[t].pc = "unlock"
    /\ dbMu' = [writer  |-> IF dbMu.writer = t THEN "none" ELSE dbMu.writer,
                readers |-> dbMu.readers \ {t}]
    /\ SetDbThread(t, [dbThreads[t] EXCEPT !.pc = "done"])
    /\ UNCHANGED <<memtable, sstables, nextSSTableID, dataDir, phase, crashed,
                   effective, writes, notLsm>>

NextLsmThreads ==
    \/ \E t \in Threads : DbCall(t)
    \/ \E t \in Threads : DbLock(t)
    \/ \E t \in Threads : DbRLock(t)
    \/ \E t \in Threads : DbPut(t)
    \/ \E t \in Threads : DbFlushWrite(t)
    \/ \E t \in Threads : DbFlushAdd(t)
    \/ \E t \in Threads : DbFlushClear(t)
    \/ \E t \in Threads : DbCompactWrite(t)
    \/ \E t \in Threads : DbCompactRemove(t)
    \/ \E t \in Threads : DbCompactReplace(t)
    \/ \E t \in Threads : DbReadMemtable(t)
    \/ \E t \in Threads : DbReadTable(t)
    \/ \E t \in Threads : DbUnlock(t)

SpecLsmThreads == InitLSM /\ [][NextLsmThreads]_vars

\* the places of a call between the first and the last step of a flush or
\* a compaction
InFlushOrCompact == {"flushAdd", "flushClear", "remove", "replace"}

\* the threads that are inside Read
Reading == {t \in Threads : dbThreads[t].op = "Read" /\ dbThreads[t].pc \in {"get", "table", "unlock"}}

\* C35: whatever the interleaving of Read with Write, Delete, Flush, Compact
\* and Close, a Read sees the memtable and the stack entirely before or
\* entirely after each flush and compaction: while it runs no flush or
\* compaction is part way, every table of the stack has its file, and what
\* it returns is what Read returns on the instance as it stands -- never a
\* miss for a key that is between memtable and stack, never an error from
\* opening a removed file.
C35_ReadSeesWholeFlushesAndCompactions ==
    \A t \in Reading :
        /\ \A u \in Threads : dbThreads[u].pc \notin InFlushOrCompact
        /\ \A i \in 1..Len(sstables) : sstables[i].FilePath \in DOMAIN dataDir
        /\ dbThreads[t].pc = "unlock" =>
              /\ dbThreads[t].ret.err = ""
              /\ [value |-> dbThreads[t].ret.value, ok |-> dbThreads[t].ret.ok]
                    = SSTableDBRead(lsm, dbThreads[t].key)

\* a Read of a has returned the long value from the one table that the
\* compaction inside another thread's Write left
C35_Witness ==
    \E t, u \in Threads :
        /\ t \in Reading
        /\ dbThreads[t].pc = "unlock"
        /\ dbThreads[t].ret = [value |-> Repeat("x", BigLen), ok |-> TRUE, err |-> ""]
        /\ dbThreads[u].op = "Write"
        /\ dbThreads[u].pc = "done"
        /\ IsEmpty(memtable)
        /\ Len(sstables) = 1

====
